---- MODULE Spec2Model ----
(***************************************************************************)
(* Verification model of the Ignea front-end (lib/Python/next/ignea/front). *)
(* Part I: the lexical engine, lexical.py.  One lexer object is modelled:   *)
(* its class (TERMINAL_TAGS, chosen by cfg), its input, the linked list of  *)
(* terminals it has built, its caches and its off-side driver.              *)
(* Part II: the syntactic engine, syntactic.py.  One parser object over     *)
(* that lexer is modelled: its class (NONTERMINAL_TYPES, chosen by          *)
(* grammar), its BSR, its memo, and the calls in progress inside parse().   *)
(*                                                                         *)
(* Representation.  An NFA state bit mask is the set of its bit positions   *)
(* (mask = 0 is the empty set).  A position is the record of its index_,    *)
(* line and column (the filename never changes).  A terminal object is its  *)
(* index in the heap `terminals`; None is 0.                                *)
(***************************************************************************)
EXTENDS Integers, Sequences, FiniteSets, TLC

\* Bounds of the enumerated inputs.
MaxLen == 4
MaxLines == 3
MaxIndent == 2

None == 0

VARIABLES cfg, input, start_position, _start, terminals, offside_stack, offside_state, accepted_cache, nfas_cache, returned, rets, raised, last, offside_fed

\* A lexer class being constructed and what its construction came to.
VARIABLES terminal_tags, construction

\* The parser: its class, its fields, the calls in progress and how parse() ended; the
\* BSR visitor run on its BSR.
VARIABLES grammar, bsr, _eoi, _memo, frames, status, visitor

\* A parser class being constructed (its NONTERMINAL_TYPES) and what its construction
\* came to.
VARIABLES nonterminal_types, parser_construction

lexer_vars == <<cfg, input, start_position, _start, terminals, offside_stack, offside_state, accepted_cache, nfas_cache, returned, rets, raised, last, offside_fed>>

construction_vars == <<terminal_tags, construction>>

parser_vars == <<grammar, bsr, _eoi, _memo, frames, status, visitor>>

declaration_vars == <<nonterminal_types, parser_construction>>

\* The class attribute _instance of the visitor classes that have one of their own, the
\* visitors constructed so far, the last call of get and the results of the calls before it.
VARIABLES _instance, instances, got, gets
\* The BSR objects that are not the parser's own, by name.
VARIABLES bsrs
singleton_vars == <<_instance, instances, got, gets, bsrs>>
\* The tree nodes constructed so far, the roots not yet under a parent (one when the tree
\* is built), and how far the work on the tree has come, with what it has produced.
VARIABLES nodes, forest, stage
\* A call of visit() in progress: its local variables and the calls of hooks so far.
VARIABLES visit
tree_vars == <<nodes, forest, stage, visit>>
semantic_vars == <<singleton_vars, tree_vars>>

vars == <<lexer_vars, construction_vars, parser_vars, declaration_vars, semantic_vars>>

(***************************************************************************)
(* Terminal tag classes.  A tag class is the record of what its static      *)
(* methods return under the lexer's conditions, and of the regular          *)
(* expression its nfa recognises.                                           *)
(***************************************************************************)
Tag(name, kind, word, chars, flags, pos, neg) ==
    [name |-> name, kind |-> kind, word |-> word, chars |-> chars,
     start |-> "nostart" \notin flags, ignore |-> "ignore" \in flags,
     indent |-> "indent" \in flags, dedent |-> "dedent" \in flags,
     positives |-> pos, negatives |-> neg]

\* No tag of ClosTags matches "e".
Letters == {"a", "b", "c", "d"}

Digits == {"1", "2", "3", "4"}

\* Grammars (classes deriving IgneaLexer with their TERMINAL_TAGS).
KwTags ==
    << Tag("IDENT", "plus", <<>>, {"i", "f", "x"}, {}, {}, {"IF"}),
       Tag("IF", "lit", <<"i", "f">>, {}, {}, {"IDENT"}, {}),
       Tag("WS", "plus", <<>>, {" "}, {"ignore"}, {}, {}) >>

NumTags(numflags) ==
    << Tag("NUM", "plus", <<>>, Digits, numflags, {}, {}),
       Tag("DOT", "lit", <<".">>, {}, {}, {}, {}),
       Tag("FLOAT", "float", <<>>, Digits, {}, {}, {}) >>

OffTags(indentflags, nlflags) ==
    << Tag("INDENT", "none", <<>>, {}, {"indent"} \cup indentflags, {}, {}),
       Tag("DEDENT", "none", <<>>, {}, {"dedent"}, {}, {}),
       Tag("IDENT", "plus", <<>>, Letters, {}, {}, {}),
       Tag("WS", "plus", <<>>, {" "}, {"ignore"}, {}, {}),
       Tag("NL", "lit", <<"\n">>, {}, nlflags, {}, {}) >>

ClosTags ==
    << Tag("P1", "one", <<>>, {"a"}, {}, {"P2", "HID"}, {}),
       Tag("P2", "one", <<>>, {"b"}, {}, {"P3", "G"}, {}),
       Tag("P3", "one", <<>>, {"c"}, {}, {}, {"N1"}),
       Tag("N1", "one", <<>>, {"a"}, {}, {}, {"N2"}),
       Tag("N2", "one", <<>>, {"a", "b"}, {}, {}, {}),
       Tag("G", "one", <<>>, {"c"}, {"ignore"}, {}, {}),
       Tag("X", "one", <<>>, {"d"}, {}, {}, {"X"}),
       Tag("HID", "one", <<>>, {"a"}, {"nostart"}, {}, {}) >>

\* The terminal tags of the grammars parsed in Part II.
ExprTags ==
    << Tag("NUM", "plus", <<>>, Digits, {}, {}, {}),
       Tag("PLUS", "lit", <<"+">>, {}, {}, {}, {}),
       Tag("WS", "plus", <<>>, {" "}, {"ignore"}, {}, {}) >>

AboTags ==
    << Tag("TA", "lit", <<"a">>, {}, {}, {}, {}),
       Tag("TO", "lit", <<"o">>, {}, {}, {}, {}),
       Tag("WS", "plus", <<>>, {" "}, {"ignore"}, {}, {}) >>

Configs == {"kw", "num", "numign", "off", "offnl", "offign", "clos", "expr", "abo"}

Grammar ==
    [c \in Configs |->
        CASE c = "kw" -> KwTags
          [] c = "num" -> NumTags({})
          [] c = "numign" -> NumTags({"ignore"})
          [] c = "off" -> OffTags({}, {"ignore"})
          [] c = "offnl" -> OffTags({}, {})
          [] c = "offign" -> OffTags({"ignore"}, {"ignore"})
          [] c = "clos" -> ClosTags
          [] c = "expr" -> ExprTags
          [] c = "abo" -> AboTags]

\* The class attribute of the lexer modelled.
TERMINAL_TAGS == Grammar[cfg]

\* The tag classes by name.
TagClasses ==
    [c \in Configs |->
        [n \in {Grammar[c][i].name : i \in DOMAIN Grammar[c]} |->
            Grammar[c][CHOOSE i \in DOMAIN Grammar[c] : Grammar[c][i].name = n]]]

\* The default STATES_START = 1: bit 0.
STATES_START == {0}

\* IgneaTerminalTag.nfa of tag class t: one step, <<state_accept, next_states>>.
TagNfa(t, current_states, char) ==
    CASE t.kind = "lit" ->
           << \E i \in current_states : i = Len(t.word) - 1 /\ t.word[i + 1] = char,
              {i + 1 : i \in {j \in current_states : j < Len(t.word) - 1 /\ t.word[j + 1] = char}} >>
      [] t.kind = "plus" ->
           IF current_states \cap {0, 1} # {} /\ char \in t.chars
           THEN <<TRUE, {1}>> ELSE <<FALSE, {}>>
      [] t.kind = "one" ->
           IF 0 \in current_states /\ char \in t.chars
           THEN <<TRUE, {}>> ELSE <<FALSE, {}>>
      [] t.kind = "float" ->
           << current_states \cap {2, 3} # {} /\ char \in t.chars,
              (IF current_states \cap {0, 1} # {} /\ char \in t.chars THEN {1} ELSE {})
              \cup (IF 1 \in current_states /\ char = "." THEN {2} ELSE {})
              \cup (IF current_states \cap {2, 3} # {} /\ char \in t.chars THEN {3} ELSE {}) >>

(***************************************************************************)
(* IgneaPosition                                                            *)
(***************************************************************************)
Position(i, l, c) == [index_ |-> i, line |-> l, column |-> c]

\* The advance of current_position over one consumed character.
Advance(p, char) ==
    IF char # "\n" THEN Position(p.index_ + 1, p.line, p.column + 1)
    ELSE Position(p.index_ + 1, p.line + 1, 1)

(***************************************************************************)
(* IgneaLexer.__post_init__: the cache of runtime data of a lexer whose     *)
(* TERMINAL_TAGS is tags, or the conditions error raised.                   *)
(***************************************************************************)
\* The position in TERMINAL_TAGS of the second tag of S, where the loop raises.
Second(S) == CHOOSE i \in S : Cardinality({j \in S : j < i}) = 1

First(S) == CHOOSE i \in S : \A j \in S : i <= j

\* The loop without the test after it.
PostInitErrorLoop(indents, dedents) ==
    CASE Cardinality(indents) > 1 -> "MultipleIndents"
      [] Cardinality(dedents) > 1 -> "MultipleDedents"
      [] OTHER -> "none"

\* The error of the loop over the tags: indents and dedents are the positions of the
\* active tags taken as indent and as dedent tag.
PostInitError(indents, dedents) ==
    CASE Cardinality(indents) > 1
            /\ (Cardinality(dedents) <= 1 \/ Second(indents) < Second(dedents))
           -> "MultipleIndents"
      [] Cardinality(dedents) > 1 -> "MultipleDedents"
      [] (indents = {}) # (dedents = {}) -> "MissingOffside"
      [] OTHER -> "none"

\* The cache fields; lexed holds the names of the active tags that are neither indent
\* nor dedent, class maps a name to its tag class.
PostInitCache(tags, indents, dedents, lexed, class) ==
    [error |-> PostInitError(indents, dedents),
     states_start |-> [n \in lexed |-> STATES_START],
     terminal_tags_ignore |-> {n \in lexed : class[n].ignore},
     terminal_tags_positives |-> [n \in lexed |-> class[n].positives \cap lexed],
     terminal_tags_negatives |-> [n \in lexed |-> class[n].negatives \cap lexed],
     terminal_tags_offside |-> IF indents = {} \/ dedents = {} THEN <<>>
                               ELSE <<tags[First(indents)].name, tags[First(dedents)].name>>]

\* A tag that is both indent and dedent is taken as the indent tag: the loop continues.
PostInit(tags, class) ==
    PostInitCache(tags,
        {i \in DOMAIN tags : tags[i].start /\ tags[i].indent},
        {i \in DOMAIN tags : tags[i].start /\ ~tags[i].indent /\ tags[i].dedent},
        {tags[i].name : i \in {j \in DOMAIN tags : tags[j].start /\ ~tags[j].indent /\ ~tags[j].dedent}},
        class)

LexerCaches == [c \in Configs |-> PostInit(Grammar[c], TagClasses[c])]

\* self._cache, but for its two memoization tables, which are variables.
_cache == LexerCaches[cfg]

(***************************************************************************)
(* _IgneaOffside                                                            *)
(***************************************************************************)
OFFSIDE_STATES_START == {0, 1, 2}

\* _IgneaOffside.nfa: one step over char from `state`; [accept, next].
OffsideNfa(state, char) ==
    [accept |-> 2 \in state /\ char \notin {"\t", "\n", " "},
     next |-> (IF 0 \in state /\ char = "\n" THEN {0, 1, 2} ELSE {})
              \cup (IF 1 \in state /\ char \in {"\t", " "} THEN {0, 1, 2} ELSE {})
              \cup (IF 2 \in state /\ char \notin {"\t", "\n", " "} THEN {0, 3} ELSE {})
              \cup (IF 3 \in state /\ char # "\n" THEN {0, 3} ELSE {})]

\* _IgneaOffside._get_offside_terminal: a terminal collapsed at start_position.
OffsideTerminal(start_position_, indent) ==
    [tags |-> {_cache.terminal_tags_offside[IF indent THEN 1 ELSE 2]}, value |-> <<>>,
     start_position |-> start_position_, end_position |-> start_position_,
     accepted |-> {}, cached |-> FALSE]

\* Top, had it read the bottom of the stack.
TopBottom(stack) == stack[1]

Top(stack) == stack[Len(stack)]

\* The stack after popping while column < top.
RECURSIVE PopWhile(_, _)
PopWhile(stack, column) ==
    IF column < Top(stack) THEN PopWhile(SubSeq(stack, 1, Len(stack) - 1), column)
    ELSE stack

Repeat(x, n) == [i \in 1..n |-> x]

\* prepend_offside_terminals, had the end of the input closed only the innermost level.
PrependOffsideTerminalsInnermost(stack, start_position_, has_terminal) ==
    IF _cache.terminal_tags_offside = <<>>
    THEN [chain |-> <<>>, stack |-> stack, error |-> FALSE]
    ELSE IF ~has_terminal
    THEN [chain |-> Repeat(OffsideTerminal(start_position_, FALSE), IF Len(stack) > 1 THEN 1 ELSE 0),
          stack |-> SubSeq(stack, 1, 1), error |-> FALSE]
    ELSE IF start_position_.column < Top(stack)
    THEN LET popped == PopWhile(stack, start_position_.column) IN
         IF start_position_.column > Top(popped)
         THEN [chain |-> <<>>, stack |-> popped, error |-> TRUE]
         ELSE [chain |-> Repeat(OffsideTerminal(start_position_, FALSE), Len(stack) - Len(popped)),
               stack |-> popped, error |-> FALSE]
    ELSE IF start_position_.column > Top(stack)
    THEN [chain |-> <<OffsideTerminal(start_position_, TRUE)>>,
          stack |-> Append(stack, start_position_.column), error |-> FALSE]
    ELSE [chain |-> <<>>, stack |-> stack, error |-> FALSE]

\* prepend_offside_terminals, had the end of the input left the stack as it was.
PrependOffsideTerminalsUnpopped(stack, start_position_, has_terminal) ==
    IF _cache.terminal_tags_offside = <<>>
    THEN [chain |-> <<>>, stack |-> stack, error |-> FALSE]
    ELSE IF ~has_terminal
    THEN [chain |-> Repeat(OffsideTerminal(start_position_, FALSE), Len(stack) - 1),
          stack |-> stack, error |-> FALSE]
    ELSE IF start_position_.column < Top(stack)
    THEN LET popped == PopWhile(stack, start_position_.column) IN
         IF start_position_.column > Top(popped)
         THEN [chain |-> <<>>, stack |-> popped, error |-> TRUE]
         ELSE [chain |-> Repeat(OffsideTerminal(start_position_, FALSE), Len(stack) - Len(popped)),
               stack |-> popped, error |-> FALSE]
    ELSE IF start_position_.column > Top(stack)
    THEN [chain |-> <<OffsideTerminal(start_position_, TRUE)>>,
          stack |-> Append(stack, start_position_.column), error |-> FALSE]
    ELSE [chain |-> <<>>, stack |-> stack, error |-> FALSE]

\* _IgneaOffside.prepend_offside_terminals.  has_terminal is current_terminal is not
\* None.  The result: the off-side terminals put in front (first to last), the stack
\* left behind, and whether IgneaIndentationError was raised (the pops stay done).
PrependOffsideTerminals(stack, start_position_, has_terminal) ==
    IF _cache.terminal_tags_offside = <<>>
    THEN [chain |-> <<>>, stack |-> stack, error |-> FALSE]
    ELSE IF ~has_terminal
    THEN [chain |-> Repeat(OffsideTerminal(start_position_, FALSE), Len(stack) - 1),
          stack |-> SubSeq(stack, 1, 1), error |-> FALSE]
    ELSE IF start_position_.column < Top(stack)
    THEN LET popped == PopWhile(stack, start_position_.column) IN
         IF start_position_.column > Top(popped)
         THEN [chain |-> <<>>, stack |-> popped, error |-> TRUE]
         ELSE [chain |-> Repeat(OffsideTerminal(start_position_, FALSE), Len(stack) - Len(popped)),
               stack |-> popped, error |-> FALSE]
    ELSE IF start_position_.column > Top(stack)
    THEN [chain |-> <<OffsideTerminal(start_position_, TRUE)>>,
          stack |-> Append(stack, start_position_.column), error |-> FALSE]
    ELSE [chain |-> <<>>, stack |-> stack, error |-> FALSE]

(***************************************************************************)
(* IgneaLexer._process_nfas                                                 *)
(***************************************************************************)
\* One NFA step of a tag, read from _cache.nfas when the key is there.
NfaStep(nfas, name, states, char) ==
    IF <<name, states, char>> \in DOMAIN nfas THEN nfas[<<name, states, char>>]
    ELSE TagNfa(TagClasses[cfg][name], states, char)

\* What the loop over current_states leaves: stepped maps each running tag to its
\* <<state_accept, states>>.
Stepped(current_states, char, nfas, stepped) ==
    [next_terminal_tags |-> {n \in DOMAIN current_states : stepped[n][1]},
     next_states |-> [n \in {m \in DOMAIN current_states : stepped[m][2] # {}} |-> stepped[n][2]],
     nfas |-> [k \in DOMAIN nfas \cup {<<n, current_states[n], char>> : n \in DOMAIN current_states}
                 |-> IF k \in DOMAIN nfas THEN nfas[k] ELSE stepped[k[1]]]]

\* current_states maps the tags still running to their states.  The result: the tags
\* that accepted (next_terminal_tags), the states carried forward (next_states) and
\* the cache with this step's keys added.
ProcessNfas(current_states, char, nfas) ==
    Stepped(current_states, char, nfas,
            [n \in DOMAIN current_states |-> NfaStep(nfas, n, current_states[n], char)])

(***************************************************************************)
(* IgneaLexer._process_positives_negatives                                  *)
(***************************************************************************)
\* The tags that `current` adds through table (the for loop filling next_terminal_tags).
Added(table, current) == UNION {table[n] : n \in current}

\* Either while loop: `all` is positive_terminal_tags (negative_terminal_tags),
\* `current` holds the tags added last and `next` those to add now.
RECURSIVE ClosureLoop(_, _, _)
ClosureLoop(table, all, next) ==
    IF next = {} THEN all
    ELSE ClosureLoop(table, all \cup next, Added(table, next) \ (all \cup next))

\* TransitiveNegatives, had the second while loop been left out.
TransitiveNegativesDirect(negatives) == negatives

TransitiveNegatives(negatives) ==
    ClosureLoop(_cache.terminal_tags_negatives, negatives,
                Added(_cache.terminal_tags_negatives, negatives) \ negatives)

\* Subtract, had the negatives been left where they are.
SubtractNothing(positives) == positives

Subtract(positives) ==
    positives \ TransitiveNegatives(Added(_cache.terminal_tags_negatives, positives))

ProcessPositivesNegatives(positive_terminal_tags) ==
    Subtract(ClosureLoop(_cache.terminal_tags_positives, positive_terminal_tags,
                         Added(_cache.terminal_tags_positives, positive_terminal_tags)
                             \ positive_terminal_tags))

\* Lines 746-749 of _get_terminal: the refined set is stored under the accepted set.
Store(accepted, refined, cache) ==
    [tags |-> refined, cached |-> FALSE,
     cache |-> [a \in DOMAIN cache \cup {accepted} |-> IF a = accepted THEN refined ELSE cache[a]]]

\* Lines 739-756 of _get_terminal: the refined tag set of an accepted set, computed
\* and stored, or read back from _cache.accepted_terminal_tags.
Refine(accepted, cache) ==
    IF accepted \notin DOMAIN cache
    THEN Store(accepted, ProcessPositivesNegatives(accepted) \ _cache.terminal_tags_ignore, cache)
    ELSE [tags |-> cache[accepted], cached |-> TRUE, cache |-> cache]

(***************************************************************************)
(* IgneaLexer._get_terminal                                                 *)
(*                                                                         *)
(* The locals and the store of one call are the record d:                   *)
(*   start, pos, acc_pos   start_position, _store.current_position,         *)
(*                         accepted_position                                *)
(*   cur                   _store.current_states                            *)
(*   acc_tags, last_tags   accepted_terminal_tags, last_terminal_tags       *)
(*   is_off                is_offside                                       *)
(*   off_state, nfas       _store.offside._state, _cache.nfas               *)
(*   fed                   history: the indices given to the off-side NFA   *)
(***************************************************************************)
\* Lines 709-713: the off-side NFA steps over input[from]; r is what the step gives.
FeedOne(d, from, r) ==
    [d EXCEPT !.off_state = r.next,
              !.is_off = @ \/ (r.accept /\ from = d.start.index_),
              !.fed = Append(@, from)]

\* Lines 705-713: the off-side NFA over input[from .. to-1].
RECURSIVE FeedOffside(_, _, _)
FeedOffside(d, from, to) ==
    IF from >= to THEN d
    ELSE FeedOffside(FeedOne(d, from, OffsideNfa(d.off_state, input[from + 1])), from + 1, to)

\* Commit, had the first match been kept instead of the longest.
CommitFirst(d, next_terminal_tags) ==
    IF next_terminal_tags = {} \/ d.acc_tags # {} THEN d
    ELSE [FeedOffside(d, d.acc_pos.index_, d.pos.index_)
             EXCEPT !.acc_tags = next_terminal_tags, !.acc_pos = d.pos]

\* Commit, had the off-side NFA stepped over each character as the driver reads it.
CommitEager(d, next_terminal_tags) ==
    [FeedOffside(d, d.pos.index_ - 1, d.pos.index_)
        EXCEPT !.acc_tags = IF next_terminal_tags = {} THEN @ ELSE next_terminal_tags,
               !.acc_pos = IF next_terminal_tags = {} THEN @ ELSE d.pos]

\* Lines 693-715: the tags that accepted at d.pos become the accepted tags, the
\* off-side NFA catches up and the accepted position moves to d.pos.
Commit(d, next_terminal_tags) ==
    IF next_terminal_tags = {} THEN d
    ELSE [FeedOffside(d, d.acc_pos.index_, d.pos.index_)
             EXCEPT !.acc_tags = next_terminal_tags, !.acc_pos = d.pos]

\* Lines 683-732: one iteration of the inner loop; step is what _process_nfas left.
Iteration(d, char, step) ==
    [Commit([d EXCEPT !.pos = Advance(d.pos, char), !.nfas = step.nfas], step.next_terminal_tags)
        EXCEPT !.cur = step.next_states,
               !.last_tags = IF DOMAIN step.next_states = {}
                                /\ Cardinality(DOMAIN d.cur) < Cardinality(DOMAIN _cache.states_start)
                             THEN DOMAIN d.cur ELSE @]

\* Lines 680-732: the inner loop, one character per iteration.
RECURSIVE InnerLoop(_)
InnerLoop(d) ==
    IF DOMAIN d.cur = {} \/ d.pos.index_ >= Len(input) THEN d
    ELSE InnerLoop(Iteration(d, input[d.pos.index_ + 1],
                             ProcessNfas(d.cur, input[d.pos.index_ + 1], d.nfas)))

\* What a call of _get_terminal leaves behind and gives back.  kind is "terminal"
\* (chain: the off-side terminals put in front, then the terminal), "eof" (chain: the
\* trailing dedents, if any), "NoTerminalTag" or "Indentation" (raised at position).
\* spans is history: the matches of the call, one per run of the NFA driver.
Outcome(kind, chain, d, stack, cache, spans) ==
    [kind |-> kind, chain |-> chain, position |-> d.start, last_terminal_tags |-> d.last_tags,
     off_state |-> d.off_state, nfas |-> d.nfas, fed |-> d.fed,
     stack |-> stack, cache |-> cache, spans |-> spans]

\* History: the match the NFA driver ended with.
Span(d, refined) ==
    [start |-> d.start.index_, end |-> d.acc_pos.index_, read |-> d.pos.index_,
     accepted |-> d.acc_tags, refined |-> refined]

\* Lines 759-766: the terminal of the match.
NewTerminal(d, r) ==
    [tags |-> r.tags, value |-> SubSeq(input, d.start.index_ + 1, d.acc_pos.index_),
     start_position |-> d.start, end_position |-> d.acc_pos,
     accepted |-> d.acc_tags, cached |-> r.cached]

\* Lines 768-775: o is what prepend_offside_terminals gave (nothing when not off-side).
Emit(d, r, o, spans) ==
    IF o.error THEN Outcome("Indentation", <<>>, d, o.stack, r.cache, spans)
    ELSE Outcome("terminal", Append(o.chain, NewTerminal(d, r)), d, o.stack, r.cache, spans)

\* Lines 777-780: the end of the input, reached over ignored matches.
EndOfInput(d, r, o, spans) == Outcome("eof", o.chain, d, o.stack, r.cache, spans)

\* Restart, had start_position been left at the start of the ignored match.
RestartKeepStart(d, r) ==
    [d EXCEPT !.pos = d.acc_pos, !.cur = _cache.states_start,
              !.acc_tags = r.tags, !.last_tags = {}, !.is_off = FALSE]

\* Lines 782-788: skip the ignored match and restart.
Restart(d, r) ==
    [d EXCEPT !.start = d.acc_pos, !.pos = d.acc_pos, !.cur = _cache.states_start,
              !.acc_tags = r.tags, !.last_tags = {}, !.is_off = FALSE]

RECURSIVE GetTerminalLoop(_, _, _, _)

\* Lines 758-788: r is the refined tag set of the match.
Refined(d, stack, r, spans) ==
    IF r.tags # {}
    THEN Emit(d, r, IF d.is_off THEN PrependOffsideTerminals(stack, d.start, TRUE)
                    ELSE [chain |-> <<>>, stack |-> stack, error |-> FALSE], spans)
    ELSE IF d.pos.index_ = Len(input)
    THEN EndOfInput(d, r, PrependOffsideTerminals(stack, d.start, FALSE), spans)
    ELSE GetTerminalLoop(Restart(d, r), stack, r.cache, spans)

\* Lines 734-756: after the inner loop.
Matched(d, stack, cache, spans) ==
    IF d.acc_tags = {}
    THEN Outcome("NoTerminalTag", <<>>, d, stack, cache, Append(spans, Span(d, {})))
    ELSE Refined(d, stack, Refine(d.acc_tags, cache),
                 Append(spans, Span(d, Refine(d.acc_tags, cache).tags)))

\* Lines 679-788: the outer loop, one run of the NFA driver per iteration.
GetTerminalLoop(d, stack, cache, spans) == Matched(InnerLoop(d), stack, cache, spans)

\* Lines 670-677: the locals and the store when the outer loop is entered.
Entry(start_position_, off_state, nfas) ==
    [start |-> start_position_, pos |-> start_position_, acc_pos |-> start_position_,
     cur |-> _cache.states_start, acc_tags |-> {}, last_tags |-> {}, is_off |-> FALSE,
     off_state |-> off_state, nfas |-> nfas, fed |-> <<>>]

GetTerminal(start_position_, off_state, stack, cache, nfas) ==
    IF start_position_.index_ = Len(input)
    THEN EndOfInput(Entry(start_position_, off_state, nfas), [cache |-> cache],
                    PrependOffsideTerminals(stack, start_position_, FALSE), <<>>)
    ELSE GetTerminalLoop(Entry(start_position_, off_state, nfas), stack, cache, <<>>)

(***************************************************************************)
(* The inputs and the initial state: a lexer just constructed.              *)
(***************************************************************************)
Strings(alphabet, n) == UNION {[1..k -> alphabet] : k \in 0..n}

\* The lines "a", each after its indentation, joined by line feeds.
RECURSIVE JoinLines(_, _)
JoinLines(indents, i) ==
    IF i > Len(indents) THEN <<>>
    ELSE (IF i > 1 THEN <<"\n">> ELSE <<>>) \o Repeat(" ", indents[i]) \o <<"a">>
         \o JoinLines(indents, i + 1)

IndentedInputs == {JoinLines(ind, 1) : ind \in UNION {[1..k -> 0..MaxIndent] : k \in 1..MaxLines}}

\* The inputs parsed in Part II, by lexer class.
ExprInputs ==
    Strings({"1", "+"}, MaxLen)
    \cup {<<"1", "+", "2", "+", "3">>, <<" ">>, <<"1", " ", "+", "1">>, <<"1", "?">>, <<"?">>}

AboInputs == Strings({"a", "o"}, MaxLen) \cup {<<" ">>, <<"a", " ">>, <<"a", "?">>}

Inputs ==
    [c \in Configs |->
        CASE c = "kw" -> Strings({"i", "f", "x", " "}, MaxLen)
                         \cup {<<"i", "f", " ", "i", "f", "x">>}
          [] c \in {"num", "numign"} -> Strings({"1", "2", "."}, MaxLen)
                         \cup {<<"1", "2", ".", "3", "4">>}
          [] c \in {"off", "offnl", "offign"} ->
                         Strings({"a", " ", "\n"}, MaxLen) \cup IndentedInputs
                         \cup {<<"a", "\n", " ", " ", "b", "\n", " ", " ", "c", "\n", "d">>,
                               <<"a", "\n", " ", " ", " ", " ", "b", "\n", " ", " ", "c">>,
                               <<" ", "a", "\n", " ", " ", " ", "a", "\n", " ", " ", "a", "\n">>}
          [] c = "clos" -> Strings({"a", "b", "c", "d", "e"}, MaxLen - 1)
          [] c = "expr" -> ExprInputs
          [] c = "abo" -> AboInputs]

NoCall == [arg |-> None, kind |-> "init", result |-> None, computed |-> FALSE,
           position |-> Position(0, 1, 1), last_terminal_tags |-> {}, spans |-> <<>>, fed |-> <<>>]

\* The lexer of class c over the input text, just constructed.
LexerInit(c, text) ==
    /\ cfg = c
    /\ input = text
    /\ start_position = Position(0, 1, 1)
    /\ _start = None
    /\ terminals = <<>>
    /\ offside_stack = <<1>>
    /\ offside_state = OFFSIDE_STATES_START
    /\ offside_fed = <<>>
    /\ accepted_cache = <<>>
    /\ nfas_cache = <<>>
    /\ returned = {}
    /\ rets = {}
    /\ raised = FALSE
    /\ last = NoCall

\* No lexer class under construction.
NoConstruction == terminal_tags = <<>> /\ construction = [error |-> "absent"]

\* Lines 34 and 331: no visitor exists and no class but the two bases has an _instance.
NoSingleton ==
    /\ _instance = [c \in {"IgneaBSRVisitor", "IgneaTreeVisitor"} |-> "None"]
    /\ instances = <<>>
    /\ got = [cls |-> "none"]
    /\ gets = {}
    /\ bsrs = <<>>

\* No tree.
NoTree == nodes = <<>> /\ forest = <<>> /\ stage = [at |-> "none"] /\ visit = [at |-> "none"]

NoSemantic == NoSingleton /\ NoTree

\* No parser class under construction.
NoDeclaration == nonterminal_types = <<>> /\ parser_construction = [error |-> "absent"]

\* No parser.
NoParser ==
    /\ grammar = "none" /\ bsr = [start |-> <<>>, epns |-> <<>>] /\ _eoi = None /\ _memo = <<>>
    /\ frames = <<>> /\ status = [kind |-> "none", position |-> Position(0, 1, 1)]
    /\ visitor = [cls |-> "none"]

Init ==
    /\ \E c \in {k \in Configs : LexerCaches[k].error = "none"} : \E text \in Inputs[c] :
          LexerInit(c, text)
    /\ NoConstruction
    /\ NoParser
    /\ NoDeclaration
    /\ NoSemantic

(***************************************************************************)
(* IgneaLexer.next_terminal                                                 *)
(***************************************************************************)
\* The chain's terminals as heap objects from address base + 1 on, each linked to
\* the next one.
Linked(chain, base) ==
    [i \in 1..Len(chain) |->
        [tags |-> chain[i].tags, value |-> chain[i].value,
         start_position |-> chain[i].start_position, end_position |-> chain[i].end_position,
         next |-> IF i < Len(chain) THEN base + i + 1 ELSE None,
         accepted |-> chain[i].accepted, cached |-> chain[i].cached]]

\* The call returns the memoized successor: nothing but the history changes.
ReadBack(current_terminal, result) ==
    /\ returned' = returned \cup {result}
    /\ rets' = rets \cup {<<current_terminal, result>>}
    /\ last' = [NoCall EXCEPT !.arg = current_terminal, !.kind = "return", !.result = result]
    /\ UNCHANGED <<cfg, input, start_position, _start, terminals, offside_stack, offside_state,
                   accepted_cache, nfas_cache, raised, offside_fed>>

\* _get_terminal raised: the assignment to _start or to next does not happen.
Raise(current_terminal, o) ==
    /\ raised' = TRUE
    /\ last' = [arg |-> current_terminal, kind |-> o.kind, result |-> None, computed |-> TRUE,
                position |-> o.position, last_terminal_tags |-> o.last_terminal_tags,
                spans |-> o.spans, fed |-> o.fed]
    /\ UNCHANGED <<terminals, _start, start_position, returned, rets>>

\* _get_terminal returned the chain o.chain (empty: None), whose first terminal
\* becomes _start or current_terminal.next and is returned.
Link(current_terminal, o, result) ==
    /\ returned' = returned \cup ({result} \ {None})
    /\ rets' = rets \cup {<<current_terminal, result>>}
    /\ last' = [arg |-> current_terminal, kind |-> "return", result |-> result, computed |-> TRUE,
                position |-> o.position, last_terminal_tags |-> o.last_terminal_tags,
                spans |-> o.spans, fed |-> o.fed]
    /\ IF current_terminal = None
       THEN /\ _start' = result
            /\ terminals' = terminals \o Linked(o.chain, Len(terminals))
            /\ start_position' = IF result = None THEN start_position
                                 ELSE o.chain[1].start_position
       ELSE /\ terminals' = [terminals EXCEPT ![current_terminal].next = result]
                            \o Linked(o.chain, Len(terminals))
            /\ UNCHANGED <<_start, start_position>>
    /\ UNCHANGED raised

\* Each index of the sequence is greater than the one before.
Increasing(indices) == \A i \in 2..Len(indices) : indices[i] > indices[i - 1]

\* The call runs _get_terminal, with outcome o.  offside_fed is history: the indices that
\* the calls so far gave to the off-side NFA, in order, up to the first call that gave
\* one that is not greater than the one before.
Computed(current_terminal, o) ==
    /\ offside_state' = o.off_state
    /\ offside_fed' = IF Increasing(offside_fed) THEN offside_fed \o o.fed ELSE offside_fed
    /\ offside_stack' = o.stack
    /\ accepted_cache' = o.cache
    /\ nfas_cache' = o.nfas
    /\ IF o.kind \in {"NoTerminalTag", "Indentation"} THEN Raise(current_terminal, o)
       ELSE Link(current_terminal, o, IF o.chain = <<>> THEN None ELSE Len(terminals) + 1)
    /\ UNCHANGED <<cfg, input>>

\* Successor, had next_terminal not looked at what it memoized.
SuccessorForgotten(current_terminal) == None

\* The memoized successor of current_terminal: _start or current_terminal.next.
Successor(current_terminal) ==
    IF current_terminal = None THEN _start ELSE terminals[current_terminal].next

\* StartPosition, had lexing gone on from where current_terminal starts.
StartPositionOfStart(current_terminal) ==
    IF current_terminal = None THEN start_position ELSE terminals[current_terminal].start_position

\* Where lexing goes on after current_terminal.
StartPosition(current_terminal) ==
    IF current_terminal = None THEN start_position ELSE terminals[current_terminal].end_position

NextTerminal(current_terminal) ==
    IF Successor(current_terminal) = None
    THEN \E o \in {GetTerminal(StartPosition(current_terminal), offside_state, offside_stack,
                               accepted_cache, nfas_cache)} : Computed(current_terminal, o)
    ELSE ReadBack(current_terminal, Successor(current_terminal))

\* next_terminal(None)
NextTerminalFirst == NextTerminal(None) /\ UNCHANGED <<construction_vars, declaration_vars, semantic_vars, parser_vars>>

\* next_terminal(T), T a terminal this lexer has returned
NextTerminalAfter ==
    /\ \E t \in returned : NextTerminal(t)
    /\ UNCHANGED <<construction_vars, declaration_vars, semantic_vars, parser_vars>>

Next == NextTerminalFirst \/ NextTerminalAfter

Spec == Init /\ [][Next]_vars

(***************************************************************************)
(* Properties of the lexer.                                                 *)
(***************************************************************************)
\* Whether a call of next_terminal went through _get_terminal to the end of the input.
LexedToEnd == last.kind = "return" /\ last.computed /\ last.result = None

\* C1 (lazy stability): whatever the calls made so far, all the calls next_terminal(T)
\* that returned gave the same object for the same T (None every time, or one
\* terminal), and a terminal they gave is the one memoized in _start or T.next.
LazyStability ==
    \A p \in rets :
        /\ \A q \in rets : p[1] = q[1] => p[2] = q[2]
        /\ p[2] # None => p[2] = IF p[1] = None THEN _start ELSE terminals[p[1]].next

\* A call with a terminal as argument has just read its successor back.
LazyStabilityWitness ==
    last.kind = "return" /\ ~last.computed /\ last.arg # None /\ last.result # None

\* C2 (ignore correctness): no terminal of the list carries a tag whose
\* ignore(conditions) is true.
IgnoreCorrectness ==
    \A i \in DOMAIN terminals : \A n \in terminals[i].tags : ~TagClasses[cfg][n].ignore

\* The terminals of the list that carry the indent (k = 1) or the dedent (k = 2) tag.
OffsideTerminals(k) ==
    {i \in DOMAIN terminals : _cache.terminal_tags_offside[k] \in terminals[i].tags}

\* C3 (off-side balance): with the indent and dedent tags configured, once the input
\* is lexed to the None that ends it and no call has raised, the list holds as many
\* indent terminals as dedent terminals.
OffsideBalance ==
    (_cache.terminal_tags_offside # <<>> /\ ~raised /\ LexedToEnd)
        => Cardinality(OffsideTerminals(1)) = Cardinality(OffsideTerminals(2))

\* An input lexed to its end without an error, two levels deep.
OffsideBalanceWitness ==
    /\ _cache.terminal_tags_offside # <<>> /\ ~raised /\ LexedToEnd
    /\ Cardinality(OffsideTerminals(1)) >= 2

\* Whether terminal t is an indent or dedent terminal of the off-side rule.
IsOffside(t) ==
    _cache.terminal_tags_offside # <<>>
        /\ t.tags \cap {_cache.terminal_tags_offside[1], _cache.terminal_tags_offside[2]} # {}

\* C4 (order of the list): a terminal's successor starts at or after the terminal's
\* end, and an indent or dedent terminal that has a successor is collapsed where its
\* successor starts.
ListOrder ==
    \A i \in DOMAIN terminals :
        terminals[i].next # None =>
            /\ terminals[terminals[i].next].start_position.index_ >= terminals[i].end_position.index_
            /\ IsOffside(terminals[i]) =>
                 /\ terminals[i].start_position.index_ = terminals[terminals[i].next].start_position.index_
                 /\ terminals[i].end_position.index_ = terminals[terminals[i].next].start_position.index_

\* A dedent terminal in front of a terminal that follows a terminal of some length.
ListOrderWitness ==
    \E i \in DOMAIN terminals :
        /\ terminals[i].value # <<>> /\ terminals[i].next # None
        /\ IsOffside(terminals[terminals[i].next])
        /\ terminals[terminals[i].next].next # None
        /\ terminals[terminals[i].next].start_position.index_ > terminals[i].end_position.index_

\* The least set of names that holds seed and, with a tag, the tags table gives for it.
LeastClosed(names, seed, table) ==
    {n \in names :
        \A S \in SUBSET names : (seed \subseteq S /\ \A m \in S : table[m] \subseteq S) => n \in S}

\* (P minus N) minus the ignored tags, P and N as the least closed sets.
PMinusN(P, names, c) ==
    (P \ LeastClosed(names, UNION {c.terminal_tags_negatives[t] : t \in P}, c.terminal_tags_negatives))
        \ c.terminal_tags_ignore

\* What an accepted set A is refined to, for each lexer class.
ExpectedTags ==
    [k \in Configs |->
        [A \in SUBSET DOMAIN LexerCaches[k].states_start |->
            PMinusN(LeastClosed(DOMAIN LexerCaches[k].states_start, A,
                                LexerCaches[k].terminal_tags_positives),
                    DOMAIN LexerCaches[k].states_start, LexerCaches[k])]]

KeywordList(first_tags) ==
    /\ Len(terminals) = 2
    /\ terminals[1].tags = first_tags /\ terminals[1].value = <<"i", "f">>
    /\ terminals[2].tags = {"IDENT"} /\ terminals[2].value = <<"i", "f", "x">>
    /\ _start = 1 /\ terminals[1].next = 2

KeywordInput == cfg = "kw" /\ input = <<"i", "f", " ", "i", "f", "x">> /\ LexedToEnd

\* C6 (keyword scenario, as claimed): with IF.positives = {IDENT} and
\* IDENT.negatives = {IF}, "if ifx" lexes to the two terminals {IF}"if", {IDENT}"ifx".
KeywordScenario == KeywordInput => KeywordList({"IF"})

\* C6 (keyword scenario, amended): under that configuration "if ifx" lexes to the two
\* terminals {IDENT}"if", {IDENT}"ifx": the negatives of IDENT remove IF.
KeywordScenarioIdent == KeywordInput => KeywordList({"IDENT"})

\* "if ifx" is lexed to its end.
KeywordScenarioWitness == KeywordInput /\ Len(terminals) = 2

\* Whether the NFA of tag class t, in `states` before input[i + 1], accepts at input[to].
RECURSIVE Run(_, _, _, _)
Run(t, states, i, to) ==
    IF i + 1 >= to THEN TagNfa(t, states, input[to])[1]
    ELSE Run(t, TagNfa(t, states, input[i + 1])[2], i + 1, to)

\* The active tags lexed by NFA whose regular expression matches input[from+1 .. to].
AcceptedAt(from, to) ==
    {n \in DOMAIN _cache.states_start : Run(TagClasses[cfg][n], STATES_START, from, to)}

\* Terminal t spans the longest prefix from its start that a tag accepts, and was
\* lexed from the tags that accept that prefix.
Longest(t, from, to) ==
    /\ to > from
    /\ t.value = SubSeq(input, from + 1, to)
    /\ t.accepted # {}
    /\ t.accepted = AcceptedAt(from, to)
    /\ \A k \in (to + 1)..Len(input) : AcceptedAt(from, k) = {}

NumberInput(text) == cfg = "num" /\ input = text /\ LexedToEnd

\* C7 (longest match): the value of a terminal the NFA driver produced is the longest
\* prefix of the input from its start that some active tag accepts, and the tags it
\* was refined from are the tags that accept that prefix; "12.34" lexes to the one
\* terminal {FLOAT}"12.34" and "12." to {NUM}"12", {DOT}".".
LongestMatch ==
    /\ \A i \in DOMAIN terminals :
          ~IsOffside(terminals[i]) =>
              Longest(terminals[i], terminals[i].start_position.index_,
                      terminals[i].end_position.index_)
    /\ NumberInput(<<"1", "2", ".", "3", "4">>) =>
          /\ Len(terminals) = 1
          /\ terminals[1].tags = {"FLOAT"} /\ terminals[1].value = input
    /\ NumberInput(<<"1", "2", ".">>) =>
          /\ Len(terminals) = 2
          /\ terminals[1].tags = {"NUM"} /\ terminals[1].value = <<"1", "2">>
          /\ terminals[2].tags = {"DOT"} /\ terminals[2].value = <<".">>

\* "12." is lexed to its end: the driver read the "." looking for a FLOAT and went
\* back to the end of the NUM.
LongestMatchWitness ==
    /\ NumberInput(<<"1", "2", ".">>)
    /\ Len(terminals) = 2
    /\ terminals[1].accepted = {"NUM"}

\* Whether the match spans[k] was ignored: tags accepted, none left by the refinement.
Ignored(spans, k) == spans[k].accepted # {} /\ spans[k].refined = {}

\* C8 (ignore restart): a match whose refined tag set is empty and which ends before
\* the end of the input is skipped and the NFA driver restarts where it ends; so a
\* call reports the end of the input only when its last ignored match ends there.
IgnoreRestart ==
    (last.computed /\ last.kind = "return") =>
        \A k \in DOMAIN last.spans :
            (Ignored(last.spans, k) /\ last.spans[k].end < Len(input)) =>
                /\ k < Len(last.spans)
                /\ last.spans[k + 1].start = last.spans[k].end

\* The position of index i of the input, counted from the line feeds before it.
PositionAt(i) ==
    Position(i, 1 + Cardinality({k \in 1..i : input[k] = "\n"}),
             i + 1 - CHOOSE m \in 0..i : (m = 0 \/ input[m] = "\n")
                                         /\ \A k \in (m + 1)..i : input[k] # "\n")

\* No active tag accepts any prefix of the input from index s, which is before the end.
NothingAccepts(s) ==
    s < Len(input) /\ \A k \in (s + 1)..Len(input) : AcceptedAt(s, k) = {}

\* The runs of the NFA driver in a call: the first starts where the call starts, each
\* other where the ignored match before it ends.
DriverRuns(spans, from) ==
    /\ spans[1].start = from
    /\ \A k \in 2..Len(spans) : spans[k].start = spans[k - 1].end /\ Ignored(spans, k - 1)

\* What the call just made came to: the error, at the position where the last run of
\* the driver started, and the list as it was.
RaisedNoTerminalTag(s) ==
    /\ last'.kind = "NoTerminalTag"
    /\ last'.position = PositionAt(s)
    /\ terminals' = terminals /\ _start' = _start

\* C9 (no terminal tag): a call whose NFA driver, started before the end of the
\* input, stops with no tag having accepted since that start raises the
\* no-terminal-tag error with that start position and links no terminal; no other
\* call raises it.
NoTerminalTag ==
    [][(last'.computed /\ last'.spans # <<>>) =>
          /\ DriverRuns(last'.spans, StartPosition(last'.arg).index_)
          /\ NothingAccepts(last'.spans[Len(last'.spans)].start)
                => RaisedNoTerminalTag(last'.spans[Len(last'.spans)].start)
          /\ last'.kind = "NoTerminalTag"
                => NothingAccepts(last'.spans[Len(last'.spans)].start)]_vars

\* The error raised after a terminal, where the driver restarted after an ignored match.
NoTerminalTagWitness ==
    /\ last.kind = "NoTerminalTag" /\ last.arg # None
    /\ Len(last.spans) >= 2
    /\ last.position.index_ = last.spans[Len(last.spans)].start

\* Whether index i is the first character of its line that is not white space.
FirstOfLine(i) ==
    /\ input[i + 1] \notin {"\t", "\n", " "}
    /\ \A k \in 1..i : input[k] \in {"\t", " "} \/ \E j \in k..i : input[j] = "\n"

\* The call just made returned an indent terminal collapsed at position p, in front
\* of the terminal it lexed, and pushed p's column.
IndentReturned(p) ==
    /\ offside_stack' = Append(offside_stack, p.column)
    /\ Len(terminals') = Len(terminals) + 2
    /\ last'.result = Len(terminals) + 1
    /\ terminals'[Len(terminals) + 1].tags = {_cache.terminal_tags_offside[1]}
    /\ terminals'[Len(terminals) + 1].value = <<>>
    /\ terminals'[Len(terminals) + 1].start_position = p
    /\ terminals'[Len(terminals) + 1].end_position = p
    /\ terminals'[Len(terminals) + 1].next = Len(terminals) + 2

\* The call just made lexed a terminal (the last of the list now).
Lexed ==
    /\ last'.computed /\ last'.kind = "return"
    /\ Len(terminals') > Len(terminals)
    /\ ~IsOffside(terminals'[Len(terminals')])

\* C10 (indent emission): with the off-side rule active, a call that lexes a terminal
\* which starts at the first non-white-space character of its line, in a column
\* greater than the top of the column stack, pushes that column and returns one indent
\* terminal, empty and collapsed at the terminal's start, whose next is the terminal.
IndentEmission ==
    [][(/\ _cache.terminal_tags_offside # <<>>
        /\ Lexed
        /\ FirstOfLine(terminals'[Len(terminals')].start_position.index_)
        /\ terminals'[Len(terminals')].start_position.column > Top(offside_stack))
          => IndentReturned(terminals'[Len(terminals')].start_position)]_vars

\* The levels of the column stack that are not above column.
Kept(stack, column) == SelectSeq(stack, LAMBDA c : c <= column)

\* The call just made returned n dedent terminals collapsed at position p, each the
\* next of the one before, in front of the terminal it lexed.
DedentsReturned(p, n) ==
    /\ last'.kind = "return"
    /\ Len(terminals') = Len(terminals) + n + 1
    /\ last'.result = Len(terminals) + 1
    /\ \A j \in 1..n :
          /\ terminals'[Len(terminals) + j].tags = {_cache.terminal_tags_offside[2]}
          /\ terminals'[Len(terminals) + j].value = <<>>
          /\ terminals'[Len(terminals) + j].start_position = p
          /\ terminals'[Len(terminals) + j].end_position = p
          /\ terminals'[Len(terminals) + j].next = Len(terminals) + j + 1
    /\ ~IsOffside(terminals'[Len(terminals')])
    /\ terminals'[Len(terminals')].start_position = p

\* The call just made raised the indentation error at position p.
RaisedIndentation(p) ==
    /\ last'.kind = "Indentation"
    /\ last'.position = p
    /\ terminals' = terminals /\ _start' = _start

\* The call just made matched a terminal that starts at index s, the first character
\* of its line that is not white space, in a column below the top of the stack.
OffsideBelow(s) ==
    /\ _cache.terminal_tags_offside # <<>>
    /\ last'.computed /\ last'.spans # <<>>
    /\ last'.spans[Len(last'.spans)].refined # {}
    /\ s = last'.spans[Len(last'.spans)].start
    /\ FirstOfLine(s)
    /\ PositionAt(s).column < Top(offside_stack)

\* What the call does with the stack and the list then.
Dedented(p, kept) ==
    /\ offside_stack' = kept
    /\ IF Top(kept) = p.column THEN DedentsReturned(p, Len(offside_stack) - Len(kept))
       ELSE RaisedIndentation(p)

\* The step of the off-side rule for a terminal below the top of the stack.
DedentStep ==
    \A s \in 0..Len(input) :
        OffsideBelow(s) => Dedented(PositionAt(s), Kept(offside_stack, PositionAt(s).column))


MismatchInput == cfg = "off" /\ input = <<"a", "\n", " ", " ", " ", " ", "b", "\n", " ", " ", "c">>

\* The call that lexes on after terminal "b" of the mismatch input raises at "c".
MismatchStep ==
    (MismatchInput /\ last'.computed /\ last'.arg # None /\ terminals[last'.arg].value = <<"b">>)
        => RaisedIndentation(Position(10, 3, 3))

\* C11 (dedent emission and indentation mismatch): with the off-side rule active, a
\* call whose terminal starts a line in a column below the top of the column stack
\* pops the stack while its top is above the column, returns one dedent terminal per
\* pop in front of the terminal, and raises the indentation error at the terminal's
\* start when the top left differs from the column; "a\n    b\n  c" raises at "c".
DedentEmission == [][DedentStep /\ MismatchStep]_vars

\* The call just made ended at the end of the input.
EndReached ==
    /\ _cache.terminal_tags_offside # <<>>
    /\ last'.computed /\ last'.kind = "return"
    /\ last'.spans # <<>> => last'.spans[Len(last'.spans)].refined = {}

\* The call just made appended k dedent terminals, collapsed at one position and
\* linked one to the next, returned the first of them and left the stack at [1].
TrailingDedents(k) ==
    /\ offside_stack' = <<1>>
    /\ Len(terminals') = Len(terminals) + k
    /\ last'.result = IF k = 0 THEN None ELSE Len(terminals) + 1
    /\ \A j \in 1..k :
          /\ terminals'[Len(terminals) + j].tags = {_cache.terminal_tags_offside[2]}
          /\ terminals'[Len(terminals) + j].value = <<>>
          /\ terminals'[Len(terminals) + j].end_position = terminals'[Len(terminals) + j].start_position
          /\ terminals'[Len(terminals) + j].start_position = terminals'[Len(terminals) + 1].start_position
          /\ terminals'[Len(terminals) + j].next = IF j < k THEN Len(terminals) + j + 1 ELSE None

\* The call just made asked for the terminal after the last of the trailing dedents.
PastTrailingDedents ==
    /\ _cache.terminal_tags_offside # <<>>
    /\ last'.computed /\ last'.arg # None
    /\ IsOffside(terminals[last'.arg])

\* C12 (trailing dedents): with the off-side rule active, a call that reaches the end
\* of the input with k levels above the first on the column stack appends exactly k
\* dedent terminals to the list and leaves the stack at [1]; a call for the terminal
\* after the last of them returns None and appends nothing.
TrailingDedentsAtEnd ==
    [][/\ EndReached => TrailingDedents(Len(offside_stack) - 1)
       /\ PastTrailingDedents =>
             (last'.kind = "return" /\ last'.result = None /\ Len(terminals') = Len(terminals))]_vars

\* The end of the input was asked for again after two trailing dedents.
TrailingDedentsAtEndWitness ==
    /\ LexedToEnd /\ last.arg > 2
    /\ IsOffside(terminals[last.arg]) /\ IsOffside(terminals[last.arg - 1])
    /\ terminals[last.arg - 1].next = last.arg
    /\ terminals[last.arg - 2].next = last.arg - 1

(***************************************************************************)
(* Construction of lexer classes: every TERMINAL_TAGS of at most MaxTags    *)
(* tags, each with its own start, indent and dedent predicates.             *)
(***************************************************************************)
MaxTags == 3

TagNames == <<"T1", "T2", "T3", "T4", "T5">>

\* The TERMINAL_TAGS whose i-th tag has the flags flags[i].
Declared(flags) ==
    [i \in DOMAIN flags |-> Tag(TagNames[i], "none", <<>>, {}, flags[i], {}, {})]

Declarations ==
    UNION {[1..k -> SUBSET {"nostart", "indent", "dedent"}] : k \in 0..MaxTags}

ConstructInit ==
    /\ LexerInit("kw", <<>>)
    /\ terminal_tags \in {Declared(flags) : flags \in Declarations}
    /\ construction = [error |-> "pending"]
    /\ NoParser
    /\ NoDeclaration
    /\ NoSemantic

\* IgneaLexer.__post_init__ on the class declared.
Construct ==
    /\ construction.error = "pending"
    /\ construction' = PostInit(terminal_tags,
                           [n \in {terminal_tags[i].name : i \in DOMAIN terminal_tags} |->
                               terminal_tags[CHOOSE i \in DOMAIN terminal_tags : terminal_tags[i].name = n]])
    /\ UNCHANGED <<lexer_vars, terminal_tags, parser_vars, declaration_vars, semantic_vars>>

ConstructSpec == ConstructInit /\ [][Construct]_vars

\* The active tags whose indent(conditions) and whose dedent(conditions) is true.
IndentTags == {i \in DOMAIN terminal_tags : terminal_tags[i].start /\ terminal_tags[i].indent}

DedentTags == {i \in DOMAIN terminal_tags : terminal_tags[i].start /\ terminal_tags[i].dedent}

\* The rule of construction, for a given reading of the two kinds of tag.
ConstructionRule(indents, dedents) ==
    construction.error \notin {"absent", "pending"} =>
        /\ construction.error # "none" <=>
              \/ Cardinality(indents) > 1
              \/ Cardinality(dedents) > 1
              \/ (indents = {}) # (dedents = {})
        /\ construction.error = "none" =>
              (construction.terminal_tags_offside # <<>> <=> (indents # {} /\ dedents # {}))

Nonterminal(name, start, first, alternatives) ==
    [name |-> name, start |-> start, first |-> first, alternatives |-> alternatives]

\* E -> E "+" N | N,  N -> NUM
ExprTypes ==
    << Nonterminal("E", TRUE, {"E", "N"}, << <<"E", "PLUS", "N">>, <<"N">> >>),
       Nonterminal("N", FALSE, {}, << <<"NUM">> >>) >>

\* A -> A A | "a"
AmbTypes == << Nonterminal("A", TRUE, {"A"}, << <<"A", "A">>, <<"TA">> >>) >>

\* S -> "a" P,  P -> O O,  O -> | "o"
OptTypes ==
    << Nonterminal("S", TRUE, {}, << <<"TA", "P">> >>),
       Nonterminal("P", FALSE, {"O"}, << <<"O", "O">> >>),
       Nonterminal("O", FALSE, {}, << <<>>, <<"TO">> >>) >>

\* S -> | "a"
MaybeTypes == << Nonterminal("S", TRUE, {}, << <<>>, <<"TA">> >>) >>

\* S -> "a" "o"
PairTypes == << Nonterminal("S", TRUE, {}, << <<"TA", "TO">> >>) >>

\* A -> B "o" | "a",  B -> A "a" | "o": A and B are mutually left-recursive.
MutualTypes ==
    << Nonterminal("A", TRUE, {"B"}, << <<"B", "TO">>, <<"TA">> >>),
       Nonterminal("B", FALSE, {"A"}, << <<"A", "TA">>, <<"TO">> >>) >>

\* S -> S "o" | B,  B -> B "a" | "a": two left-recursive types, one first in the other.
NestedTypes ==
    << Nonterminal("S", TRUE, {"S", "B"}, << <<"S", "TO">>, <<"B">> >>),
       Nonterminal("B", FALSE, {"B"}, << <<"B", "TA">>, <<"TA">> >>) >>

\* S -> IDENT INDENT IDENT INDENT IDENT DEDENT DEDENT T,  T -> IDENT: two blocks closed
\* at once, over the off-side lexer.
BlockTypes ==
    << Nonterminal("S", TRUE, {},
                   << <<"IDENT", "INDENT", "IDENT", "INDENT", "IDENT", "DEDENT", "DEDENT", "T">> >>),
       Nonterminal("T", FALSE, {}, << <<"IDENT">> >>) >>

\* Parser classes (classes deriving IgneaParser with their NONTERMINAL_TYPES).
\* A -> B | "a",  B -> A: a cycle of unit rules.
CycTypes ==
    << Nonterminal("A", TRUE, {"B"}, << <<"B">>, <<"TA">> >>),
       Nonterminal("B", FALSE, {"A"}, << <<"A">> >>) >>

\* The grammars with a cycle of unit rules.
UnitCycleGrammars == {"cyc"}

ParserGrammars ==
    {"expr", "amb", "opt", "maybe", "pair", "mutual", "nested", "block"} \cup UnitCycleGrammars

ParserGrammar ==
    [g \in ParserGrammars |->
        CASE g = "expr" -> ExprTypes
          [] g = "amb" -> AmbTypes
          [] g = "opt" -> OptTypes
          [] g = "maybe" -> MaybeTypes
          [] g = "pair" -> PairTypes
          [] g = "mutual" -> MutualTypes
          [] g = "nested" -> NestedTypes
          [] g = "block" -> BlockTypes
          [] g = "cyc" -> CycTypes]

\* The lexer class each parser class is used with.
LexerOf ==
    [g \in ParserGrammars |->
        IF g = "expr" THEN "expr" ELSE IF g = "block" THEN "off" ELSE "abo"]

\* The nonterminal types by name.
TypeClasses ==
    [g \in ParserGrammars |->
        [n \in {ParserGrammar[g][i].name : i \in DOMAIN ParserGrammar[g]} |->
            ParserGrammar[g][CHOOSE i \in DOMAIN ParserGrammar[g] : ParserGrammar[g][i].name = n]]]

\* issubclass(cls, IgneaTerminalTag)
IsTerminalTag(cls) == cls \in DOMAIN TagClasses[cfg]

(***************************************************************************)
(* ignea_compute_sccs and IgneaParser.__post_init__                         *)
(***************************************************************************)
\* The state of Tarjan's algorithm: visited_index, min_index, stack and sccs.  keys is
\* the order of the dict graph; the nodes a node points to are gone through in that
\* order, the partition found being the same in any order.
RECURSIVE compute_scc(_, _, _, _)
RECURSIVE compute_scc_edges(_, _, _, _, _)

\* OnStack, had no node ever been found on the stack.
OnStackNever(st, w) == FALSE

\* w in stack
OnStack(st, w) == \E i \in DOMAIN st.stack : st.stack[i] = w

compute_scc(graph, keys, v, st) ==
    LET index == Cardinality(DOMAIN st.visited_index)
        entered == [st EXCEPT !.min_index = (v :> index) @@ @,
                              !.visited_index = (v :> index) @@ @,
                              !.stack = Append(@, v)]
        after == compute_scc_edges(graph, keys, v, SelectSeq(keys, LAMBDA w : w \in graph[v]),
                                   entered)
        root == CHOOSE i \in DOMAIN after.stack : after.stack[i] = v
    IN  IF after.min_index[v] = index
        THEN [after EXCEPT !.stack = SubSeq(@, 1, root - 1),
                           !.sccs = Append(@, {after.stack[i] : i \in root..Len(after.stack)})]
        ELSE after

\* The loop of compute_scc(v) over the nodes ws that v points to.
compute_scc_edges(graph, keys, v, ws, st) ==
    IF ws = <<>> THEN st
    ELSE IF Head(ws) \notin DOMAIN st.visited_index
    THEN \* compute_scc(w), then min_index[v] = min(min_index[v], min_index[w])
         LET visited == compute_scc(graph, keys, Head(ws), st)
         IN  compute_scc_edges(graph, keys, v, Tail(ws),
                 [visited EXCEPT !.min_index[v] =
                     IF visited.min_index[Head(ws)] < @ THEN visited.min_index[Head(ws)] ELSE @])
    ELSE IF OnStack(st, Head(ws))
    THEN compute_scc_edges(graph, keys, v, Tail(ws),
             [st EXCEPT !.min_index[v] =
                 IF st.visited_index[Head(ws)] < @ THEN st.visited_index[Head(ws)] ELSE @])
    ELSE compute_scc_edges(graph, keys, v, Tail(ws), st)

\* The loop over the nodes of graph.
RECURSIVE compute_sccs_from(_, _, _, _)
compute_sccs_from(graph, keys, i, st) ==
    IF i > Len(keys) THEN st
    ELSE compute_sccs_from(graph, keys, i + 1,
             IF keys[i] \in DOMAIN st.visited_index THEN st
             ELSE compute_scc(graph, keys, keys[i], st))

\* The strongly connected components of graph, a dict with the keys in the order keys:
\* the list sccs.
ignea_compute_sccs(graph, keys) ==
    compute_sccs_from(graph, keys, 1,
        [visited_index |-> <<>>, min_index |-> <<>>, stack |-> <<>>, sccs |-> <<>>]).sccs

\* MultipleStartsAt, had the error named the last starting symbol.
MultipleStartsAtLast(names, starts) ==
    names[CHOOSE i \in starts : \A j \in starts : j <= i]

\* Lines 436-438: the type IgneaMultipleStartsError names, starts being the places in
\* NONTERMINAL_TYPES of the types whose start(conditions) is true.
MultipleStartsAt(names, starts) == names[Second(starts)]

\* LeftRecursive, had no component been skipped.
LeftRecursiveAll(sccs, nonterminal_types_first) == {sccs[i] : i \in DOMAIN sccs}

\* Lines 453-461: the components the tables are filled from, a component of one node
\* that is not in its own first set being skipped.
LeftRecursive(sccs, nonterminal_types_first) ==
    {scc \in {sccs[i] : i \in DOMAIN sccs} :
        Cardinality(scc) > 1 \/ \E v \in scc : v \in nonterminal_types_first[v]}

\* The tables of a parser whose NONTERMINAL_TYPES is types (distinct classes); error
\* is the conditions error construction ends with, nonterminal_type the type it names.
ParserPostInit(types) ==
    LET names == [i \in DOMAIN types |-> types[i].name]
        nonterminal_types_first == [n \in {names[i] : i \in DOMAIN types} |->
                                       types[CHOOSE i \in DOMAIN types : names[i] = n].first]
        starts == {i \in DOMAIN types : types[i].start}
        sccs == ignea_compute_sccs(nonterminal_types_first, names)
        recursive == LeftRecursive(sccs, nonterminal_types_first)
        sccOf(v) == CHOOSE scc \in recursive : v \in scc
    IN  [error |-> CASE Cardinality(starts) > 1 -> "MultipleStarts"
                     [] starts = {} -> "NoStart"
                     [] OTHER -> "none",
         nonterminal_type |-> IF Cardinality(starts) > 1 THEN MultipleStartsAt(names, starts)
                              ELSE "None",
         sccs |-> sccs,
         _nonterminal_type_start |-> IF starts = {} THEN "None" ELSE names[First(starts)],
         _nonterminal_types_first |->
             [v \in UNION recursive |-> sccOf(v) \cap nonterminal_types_first[v]],
         nonterminal_types_ascend_parents |->
             [v \in UNION recursive |->
                 SelectSeq(names, LAMBDA w : w \in sccOf(v) /\ v \in nonterminal_types_first[w])]]

ParserTables == [g \in ParserGrammars |-> ParserPostInit(ParserGrammar[g])]

\* The fields of the parser modelled.
_nonterminal_type_start == ParserTables[grammar]._nonterminal_type_start

_nonterminal_types_first == ParserTables[grammar]._nonterminal_types_first

nonterminal_types_ascend_parents == ParserTables[grammar].nonterminal_types_ascend_parents

(***************************************************************************)
(* IgneaParsingState, IgneaEPN, IgneaBSR                                    *)
(***************************************************************************)
ParsingState(string, start_pos, split_pos, end_terminal) ==
    [string |-> string, start_position |-> start_pos, split_position |-> split_pos,
     end_terminal |-> end_terminal]

\* type_ of an intermediate EPN.
NoType == "None"

EPN(type_, state) == [type_ |-> type_, state |-> state]

\* end_terminal.end_position if end_terminal is not None else split_position
EndPosition(state) ==
    IF state.end_terminal # None THEN state.end_terminal ELSE state.split_position

\* A key of bsr.epns: a nonterminal type or a string, and two positions.
Key(type_, string, start_pos, end_pos) ==
    <<[type_ |-> type_, string |-> string], start_pos, end_pos>>

\* KeyOf, had add filed every EPN as ending where it starts.
KeyOfStart(epn) ==
    Key(epn.type_, IF epn.type_ # NoType THEN <<>> ELSE epn.state.string,
        epn.state.start_position, epn.state.start_position)

\* The key of an EPN in IgneaBSR.add.
KeyOf(epn) ==
    Key(epn.type_, IF epn.type_ # NoType THEN <<>> ELSE epn.state.string,
        epn.state.start_position, EndPosition(epn.state))

\* IgneaBSR.add of several EPNs, in any order.
Add(b, epns) ==
    [b EXCEPT !.epns =
        [k \in DOMAIN b.epns \cup {KeyOf(e) : e \in epns} |->
            (IF k \in DOMAIN b.epns THEN b.epns[k] ELSE {}) \cup {e \in epns : KeyOf(e) = k}]]

left_children(b, parent) ==
    LET state == parent.state
        key == Key(NoType, SubSeq(state.string, 1, Len(state.string) - 1),
                   state.start_position, state.split_position)
    IN  IF state.start_position = state.split_position \/ key \notin DOMAIN b.epns
        THEN {} ELSE b.epns[key]

right_children(b, parent) ==
    LET state == parent.state
    IN  IF state.end_terminal = None THEN {}
        ELSE LET key == Key(state.string[Len(state.string)], <<>>,
                            state.split_position, state.end_terminal)
             IN  IF \/ state.split_position = state.end_terminal
                    \/ IsTerminalTag(state.string[Len(state.string)])
                    \/ key \notin DOMAIN b.epns
                 THEN {} ELSE b.epns[key]

(***************************************************************************)
(* The calls in progress.  frames is the call stack below parse(), the      *)
(* innermost call last:                                                     *)
(*   derive   IgneaParser.derive(cls, todo + done, ascend): its loop has    *)
(*            todo left over and acc = next_states so far;                  *)
(*   single   _derive_single_nonterminal_type(cls, state, ascend), waiting  *)
(*            for descend or ascend, n = initial_memo_len;                  *)
(*   descend  cls.descend(parser, state): alt is the production rule being  *)
(*            tried, of which sym symbols are derived, to the states todo;  *)
(*            acc is the union of the rules that succeeded;                 *)
(*   ascend   cls.ascend(parser, state): alt is the next ascend parent.     *)
(***************************************************************************)
Frame(op, cls, state, todo, acc, ascend, alt, sym, n) ==
    [op |-> op, cls |-> cls, state |-> state, todo |-> todo, acc |-> acc,
     ascend |-> ascend, alt |-> alt, sym |-> sym, n |-> n]

NoState == ParsingState(<<>>, 0, 0, None)

\* The frame of derive(cls, current_states, ascend), ascend evaluated to a bool.
DeriveFrame(cls, current_states, ascend) ==
    Frame("derive", cls, NoState, current_states, {}, ascend, 0, 0, 0)

\* DeriveAscend, had derive never enabled the ascent.
DeriveAscendNever(cls, caller) == FALSE

\* DeriveAscend, had derive not looked at the caller.
DeriveAscendCallee(cls, caller) == cls \in DOMAIN _nonterminal_types_first

\* derive's evaluation of an ascend argument that is no bool: caller is a nonterminal
\* type or NoType.
DeriveAscend(cls, caller) ==
    /\ \/ caller = NoType
       \/ caller \notin DOMAIN _nonterminal_types_first
       \/ cls \notin _nonterminal_types_first[caller]
    /\ cls \in DOMAIN _nonterminal_types_first

Below(fs) == SubSeq(fs, 1, Len(fs) - 1)

Alternatives(cls) == TypeClasses[grammar][cls].alternatives

\* The descend or ascend frame fs ends with, after the derive it called returned value.
DeriveReturned(fs, value) ==
    IF fs = <<>> THEN <<>>
    ELSE LET f == Top(fs)
         IN  Below(fs) \o
             << IF f.op = "ascend" THEN [f EXCEPT !.alt = @ + 1]
                ELSE IF f.sym + 1 = Len(Alternatives(f.cls)[f.alt])
                THEN [f EXCEPT !.acc = @ \cup value, !.alt = @ + 1, !.sym = 0, !.todo = {f.state}]
                ELSE [f EXCEPT !.sym = @ + 1, !.todo = value] >>

\* The same, after the derive it called raised IgneaDerivationException: ascend passes,
\* descend gives up the production rule.
DeriveRaised(fs) ==
    IF fs = <<>> THEN <<>>
    ELSE LET f == Top(fs)
         IN  Below(fs) \o << [f EXCEPT !.alt = @ + 1, !.sym = 0, !.todo = {f.state}] >>

\* The states _derive_single_nonterminal_type returns from the memo.
Memoized(cls, state, memo) ==
    {ParsingState(state.string \o <<cls>>, state.start_position, EndPosition(state), next_terminal) :
        next_terminal \in memo[<<cls, EndPosition(state)>>]}

\* fs ends with a derive frame and the single frame it called, which returns.
SingleReturned(fs, memo) ==
    LET f == Top(fs)
        d == Top(Below(fs))
    IN  Below(Below(fs)) \o << [d EXCEPT !.acc = @ \cup Memoized(f.cls, f.state, memo)] >>

(***************************************************************************)
(* IgneaParser                                                              *)
(***************************************************************************)
\* The inputs parsed, by parser class.
\* "a", " b" and "  c" on three lines, then "d" or " d" on the fourth.
BlockInputs ==
    {<<"a", "\n", " ", "b", "\n", " ", " ", "c", "\n", "d", "\n">>,
     <<"a", "\n", " ", "b", "\n", " ", " ", "c", "\n", " ", "d", "\n">>}

ParserInputs ==
    [g \in ParserGrammars |-> IF g = "block" THEN BlockInputs ELSE Inputs[LexerOf[g]]]

Status(kind, position) == [kind |-> kind, position |-> position]

\* A parser of one of the classes over a lexer of the text, both just constructed.
ParserStart(grammars) ==
    /\ \E g \in {k \in grammars : ParserTables[k].error = "none"} :
       \E text \in ParserInputs[g] :
          /\ LexerInit(LexerOf[g], text)
          /\ grammar = g
    /\ bsr = [start |-> <<>>, epns |-> <<>>]
    /\ _eoi = None
    /\ _memo = <<>>
    /\ frames = <<>>
    /\ status = Status("constructed", Position(0, 1, 1))
    /\ visitor = [cls |-> "none"]
    /\ NoConstruction
    /\ NoDeclaration
    /\ NoSemantic

\* The parsers of Part II: the visitors of ParserNext are run in one step each, which
\* the BSRs of these grammars allow.
ParserInit == ParserStart(ParserGrammars \ UnitCycleGrammars)

\* parse() calls derive on the start symbol.
Parse ==
    /\ status.kind = "constructed"
    /\ status' = Status("parsing", Position(0, 1, 1))
    /\ frames' = << DeriveFrame(_nonterminal_type_start, {ParsingState(<<>>, 0, 0, None)},
                                DeriveAscend(_nonterminal_type_start, NoType)) >>
    /\ UNCHANGED <<lexer_vars, construction_vars, declaration_vars, semantic_vars, grammar, visitor, bsr, _eoi, _memo>>

\* The walk along eoi's next fields while the start index is that of next_terminal.
RECURSIVE EoiWalk(_, _, _)
EoiWalk(eoi, next_terminal, heap) ==
    IF /\ eoi # None
       /\ next_terminal # eoi
       /\ heap[next_terminal].start_position.index_ = heap[eoi].start_position.index_
    THEN EoiWalk(heap[eoi].next, next_terminal, heap)
    ELSE eoi

\* EoiAfter, had _eoi followed the terminal the lexer returned last.
EoiAfterLast(eoi, next_terminal, heap) ==
    IF next_terminal = None THEN eoi ELSE next_terminal

\* _eoi after the lexer returned next_terminal.
EoiAfter(eoi, next_terminal, heap) ==
    IF next_terminal = None \/ next_terminal = eoi THEN eoi
    ELSE IF eoi = None
    THEN next_terminal
    ELSE IF heap[next_terminal].start_position.index_ > heap[eoi].start_position.index_
    THEN next_terminal
    ELSE IF /\ heap[next_terminal].start_position.index_ = heap[eoi].start_position.index_
            /\ EoiWalk(eoi, next_terminal, heap) = next_terminal
    THEN next_terminal
    ELSE eoi

\* The frames after _derive_single_terminal_tag(f.cls, current_state) in derive's loop.
TerminalDerived(f, current_state, next_terminal, heap) ==
    Below(frames) \o
    << [f EXCEPT !.todo = @ \ {current_state},
                 !.acc = @ \cup
                    IF next_terminal = None \/ f.cls \notin heap[next_terminal].tags THEN {}
                    ELSE {ParsingState(current_state.string \o <<f.cls>>,
                                       current_state.start_position,
                                       EndPosition(current_state), next_terminal)}] >>

\* One turn of derive's loop for a terminal tag: _derive_single_terminal_tag.  An error
\* of the lexer ends parse().
DeriveSingleTerminalTag ==
    /\ frames # <<>>
    /\ Top(frames).op = "derive"
    /\ IsTerminalTag(Top(frames).cls)
    /\ \E current_state \in Top(frames).todo :
          /\ NextTerminal(current_state.end_terminal)
          /\ bsr' = Add(bsr, {EPN(NoType, current_state)})
          /\ IF last'.kind # "return"
             THEN /\ status' = Status(last'.kind, last'.position)
                  /\ frames' = <<>>
                  /\ _eoi' = _eoi
             ELSE /\ _eoi' = EoiAfter(_eoi, last'.result, terminals')
                  /\ frames' = TerminalDerived(Top(frames), current_state, last'.result, terminals')
                  /\ status' = status
    /\ UNCHANGED <<construction_vars, declaration_vars, semantic_vars, grammar, visitor, _memo>>

\* One turn of derive's loop for a nonterminal type that is memoized at the position
\* and not ascended: _derive_single_nonterminal_type returns from the memo.
DeriveMemoized ==
    /\ frames # <<>>
    /\ Top(frames).op = "derive"
    /\ ~IsTerminalTag(Top(frames).cls)
    /\ \E current_state \in Top(frames).todo :
          /\ ~Top(frames).ascend
          /\ <<Top(frames).cls, EndPosition(current_state)>> \in DOMAIN _memo
          /\ bsr' = Add(bsr, {EPN(NoType, current_state)})
          /\ frames' = Below(frames) \o
                << [Top(frames) EXCEPT
                       !.todo = @ \ {current_state},
                       !.acc = @ \cup Memoized(Top(frames).cls, current_state, _memo)] >>
    /\ UNCHANGED <<lexer_vars, construction_vars, declaration_vars, semantic_vars, grammar, visitor, _eoi, _memo, status>>

\* The frames of _derive_single_nonterminal_type(f.cls, current_state, f.ascend) and of
\* the descend it calls, over derive's frame f.
Descending(f, current_state, memo) ==
    Below(frames) \o
    << [f EXCEPT !.todo = @ \ {current_state}],
       Frame("single", f.cls, current_state, {}, {}, f.ascend, 0, 0,
             Cardinality(memo[<<f.cls, EndPosition(current_state)>>])),
       Frame("descend", f.cls,
             ParsingState(<<>>, EndPosition(current_state), EndPosition(current_state),
                          current_state.end_terminal),
             {ParsingState(<<>>, EndPosition(current_state), EndPosition(current_state),
                           current_state.end_terminal)},
             {}, FALSE, 1, 0, 0) >>

\* One turn of derive's loop for a nonterminal type that is ascended or not memoized:
\* _derive_single_nonterminal_type calls descend.
DeriveDescend ==
    /\ frames # <<>>
    /\ Top(frames).op = "derive"
    /\ ~IsTerminalTag(Top(frames).cls)
    /\ \E current_state \in Top(frames).todo :
       \E key \in {<<Top(frames).cls, EndPosition(current_state)>>} :
          /\ Top(frames).ascend \/ key \notin DOMAIN _memo
          /\ bsr' = Add(bsr, {EPN(NoType, current_state)})
          /\ _memo' = IF key \in DOMAIN _memo THEN _memo
                      ELSE [k \in DOMAIN _memo \cup {key} |-> IF k = key THEN {} ELSE _memo[k]]
          /\ frames' = Descending(Top(frames), current_state, _memo')
    /\ UNCHANGED <<lexer_vars, construction_vars, declaration_vars, semantic_vars, grammar, visitor, _eoi, status>>

\* derive's loop is over and next_states is empty: IgneaDerivationException.
DeriveRaise ==
    /\ frames # <<>>
    /\ Top(frames).op = "derive"
    /\ Top(frames).todo = {}
    /\ Top(frames).acc = {}
    /\ frames' = DeriveRaised(Below(frames))
    /\ UNCHANGED <<lexer_vars, construction_vars, declaration_vars, semantic_vars, grammar, visitor, bsr, _eoi, _memo, status>>

\* derive's loop is over: it returns next_states.
DeriveReturn ==
    /\ frames # <<>>
    /\ Top(frames).op = "derive"
    /\ Top(frames).todo = {}
    /\ Top(frames).acc # {}
    /\ frames' = DeriveReturned(Below(frames), Top(frames).acc)
    /\ UNCHANGED <<lexer_vars, construction_vars, declaration_vars, semantic_vars, grammar, visitor, bsr, _eoi, _memo, status>>

\* descend goes on with its production rule in progress: an empty rule derives the
\* state it was given, otherwise it calls derive on the rule's next symbol, passing its
\* own type as caller for the first symbol.
DescendStep ==
    /\ frames # <<>>
    /\ Top(frames).op = "descend"
    /\ Top(frames).alt <= Len(Alternatives(Top(frames).cls))
    /\ \E f \in {Top(frames)} : \E rule \in {Alternatives(f.cls)[f.alt]} :
          frames' = IF rule = <<>>
                    THEN Below(frames) \o << [f EXCEPT !.acc = @ \cup {f.state}, !.alt = @ + 1] >>
                    ELSE frames \o
                         << DeriveFrame(rule[f.sym + 1], f.todo,
                                        DeriveAscend(rule[f.sym + 1],
                                                     IF f.sym = 0 THEN f.cls ELSE NoType)) >>
    /\ UNCHANGED <<lexer_vars, construction_vars, declaration_vars, semantic_vars, grammar, visitor, bsr, _eoi, _memo, status>>

\* descend has tried its production rules and none succeeded: it raises
\* IgneaDerivationException, and _derive_single_nonterminal_type returns from the memo.
DescendFailed ==
    /\ frames # <<>>
    /\ Top(frames).op = "descend"
    /\ Top(frames).alt > Len(Alternatives(Top(frames).cls))
    /\ Top(frames).acc = {}
    /\ frames' = SingleReturned(Below(frames), _memo)
    /\ UNCHANGED <<lexer_vars, construction_vars, declaration_vars, semantic_vars, grammar, visitor, bsr, _eoi, _memo, status>>

\* descend returns a state that ends with no terminal: the assertion of
\* _derive_single_nonterminal_type fails, after the states done were taken in.
DescendAsserted ==
    /\ frames # <<>>
    /\ Top(frames).op = "descend"
    /\ Top(frames).alt > Len(Alternatives(Top(frames).cls))
    /\ \E f \in {Top(frames)} : \E next_state \in f.acc :
       \E done \in SUBSET {s \in f.acc : s.end_terminal # None} :
          /\ next_state.end_terminal = None
          /\ bsr' = Add(bsr, {EPN(f.cls, s) : s \in done \cup {next_state}})
          /\ _memo' = [_memo EXCEPT ![<<f.cls, EndPosition(f.state)>>] =
                          @ \cup {s.end_terminal : s \in done}]
    /\ frames' = <<>>
    /\ status' = Status("AssertionError", Position(0, 1, 1))
    /\ UNCHANGED <<lexer_vars, construction_vars, declaration_vars, semantic_vars, grammar, visitor, _eoi>>

\* Descended, had ascend been called whether or not the memo set has grown.
DescendedAlways(s, memo) ==
    IF s.ascend
    THEN Below(frames) \o << Frame("ascend", s.cls, s.state, {}, {}, TRUE, 1, 0, 0) >>
    ELSE SingleReturned(Below(frames), memo)

\* The frames after descend returned to the single frame s, with the memo updated:
\* ascend is called if it is enabled and the memo set has grown.
Descended(s, memo) ==
    IF s.ascend /\ s.n # Cardinality(memo[<<s.cls, EndPosition(s.state)>>])
    THEN Below(frames) \o << Frame("ascend", s.cls, s.state, {}, {}, TRUE, 1, 0, 0) >>
    ELSE SingleReturned(Below(frames), memo)

\* descend returns its states: they go into the BSR and their end terminals into
\* the memo.
DescendReturned ==
    /\ frames # <<>>
    /\ Top(frames).op = "descend"
    /\ Top(frames).alt > Len(Alternatives(Top(frames).cls))
    /\ Top(frames).acc # {}
    /\ \A s \in Top(frames).acc : s.end_terminal # None
    /\ \E f \in {Top(frames)} :
          /\ bsr' = Add(bsr, {EPN(f.cls, s) : s \in f.acc})
          /\ _memo' = [_memo EXCEPT ![<<f.cls, EndPosition(f.state)>>] =
                          @ \cup {s.end_terminal : s \in f.acc}]
          /\ frames' = Descended(Top(Below(frames)), _memo')
    /\ UNCHANGED <<lexer_vars, construction_vars, declaration_vars, semantic_vars, grammar, visitor, _eoi, status>>

\* IgneaNonterminalType.ascend calls derive on its next ascend parent.
AscendStep ==
    /\ frames # <<>>
    /\ Top(frames).op = "ascend"
    /\ Top(frames).alt <= Len(nonterminal_types_ascend_parents[Top(frames).cls])
    /\ frames' = frames \o
          << DeriveFrame(nonterminal_types_ascend_parents[Top(frames).cls][Top(frames).alt],
                         {Top(frames).state}, TRUE) >>
    /\ UNCHANGED <<lexer_vars, construction_vars, declaration_vars, semantic_vars, grammar, visitor, bsr, _eoi, _memo, status>>

\* ascend is over, and _derive_single_nonterminal_type returns from the memo.
AscendReturn ==
    /\ frames # <<>>
    /\ Top(frames).op = "ascend"
    /\ Top(frames).alt > Len(nonterminal_types_ascend_parents[Top(frames).cls])
    /\ frames' = SingleReturned(Below(frames), _memo)
    /\ UNCHANGED <<lexer_vars, construction_vars, declaration_vars, semantic_vars, grammar, visitor, bsr, _eoi, _memo, status>>

\* parse() is past its call of derive.
Derived == status.kind = "parsing" /\ frames = <<>>

\* The key parse() looks up.
StartKey == Key(_nonterminal_type_start, <<>>, 0, _eoi)

\* The input was empty or had ignored terminals only.
ParseNothing ==
    /\ Derived
    /\ _eoi = None
    /\ status' = Status("returned", Position(0, 1, 1))
    /\ UNCHANGED <<lexer_vars, construction_vars, declaration_vars, semantic_vars, grammar, visitor, bsr, _eoi, _memo, frames>>

\* ParseNoDerivation, had the error been put at the end of _eoi.
ParseNoDerivationAtEnd ==
    /\ Derived
    /\ _eoi # None
    /\ StartKey \notin DOMAIN bsr.epns
    /\ status' = Status("NoDerivation", terminals[_eoi].end_position)
    /\ UNCHANGED <<lexer_vars, construction_vars, declaration_vars, semantic_vars, grammar, visitor, bsr, _eoi, _memo, frames>>

\* The start symbol is not derived up to _eoi.
ParseNoDerivation ==
    /\ Derived
    /\ _eoi # None
    /\ StartKey \notin DOMAIN bsr.epns
    /\ status' = Status("NoDerivation", terminals[_eoi].start_position)
    /\ UNCHANGED <<lexer_vars, construction_vars, declaration_vars, semantic_vars, grammar, visitor, bsr, _eoi, _memo, frames>>

\* ParseDerivation, had the error after the derivation been put at the start of _eoi.
ParseDerivationAtEoi ==
    /\ Derived
    /\ _eoi # None
    /\ StartKey \in DOMAIN bsr.epns
    /\ NextTerminal(_eoi)
    /\ IF last'.kind # "return"
       THEN status' = Status(last'.kind, last'.position) /\ bsr' = bsr
       ELSE IF last'.result # None
       THEN /\ status' = Status("NoDerivation", terminals'[_eoi].start_position)
            /\ bsr' = bsr
       ELSE /\ status' = Status("returned", Position(0, 1, 1))
            /\ bsr' = [bsr EXCEPT !.start = StartKey]
    /\ UNCHANGED <<construction_vars, declaration_vars, semantic_vars, grammar, visitor, _eoi, _memo, frames>>

\* The start symbol is derived up to _eoi: parse() asks the lexer for what follows.
ParseDerivation ==
    /\ Derived
    /\ _eoi # None
    /\ StartKey \in DOMAIN bsr.epns
    /\ NextTerminal(_eoi)
    /\ IF last'.kind # "return"
       THEN status' = Status(last'.kind, last'.position) /\ bsr' = bsr
       ELSE IF last'.result # None
       THEN /\ status' = Status("NoDerivation", terminals'[terminals'[_eoi].next].start_position)
            /\ bsr' = bsr
       ELSE /\ status' = Status("returned", Position(0, 1, 1))
            /\ bsr' = [bsr EXCEPT !.start = StartKey]
    /\ UNCHANGED <<construction_vars, declaration_vars, semantic_vars, grammar, visitor, _eoi, _memo, frames>>

(***************************************************************************)
(* semantic/common.py: IgneaBSRVisitor.visit as IgneaBSRDisambiguator runs  *)
(* it.  Its descend keeps the one EPN of a set or raises, its bottom is     *)
(* False: the visit is the loop over descend_queue.                         *)
(***************************************************************************)
\* The position object referred to.
PositionOf(ref) == IF ref = 0 THEN start_position ELSE terminals[ref].end_position

\* DisambiguatorLoop, had disambiguate raised nothing.
DisambiguatorLoopQuiet(b, queue, new_bsr) ==
    [cls |-> "IgneaBSRDisambiguator", error |-> "none", position |-> PositionOf(0),
     new_bsr |-> new_bsr]

\* The loop of visit: queue is descend_queue, new_bsr the BSR being built from b.
RECURSIVE DisambiguatorLoop(_, _, _)
DisambiguatorLoop(b, queue, new_bsr) ==
    IF queue = <<>>
    THEN [cls |-> "IgneaBSRDisambiguator", error |-> "none", position |-> PositionOf(0),
          new_bsr |-> new_bsr]
    ELSE IF Cardinality(Head(queue)) > 1
    THEN [cls |-> "IgneaBSRDisambiguator", error |-> "AmbiguousGrammar",
          position |-> PositionOf((CHOOSE e \in Head(queue) : TRUE).state.start_position),
          new_bsr |-> new_bsr]
    ELSE LET epn == CHOOSE e \in Head(queue) : TRUE
             left == left_children(b, epn)
             right == right_children(b, epn)
         IN  DisambiguatorLoop(b,
                 Tail(queue) \o (IF left # {} THEN <<left>> ELSE <<>>)
                             \o (IF right # {} THEN <<right>> ELSE <<>>),
                 Add(new_bsr, {epn}))

\* IgneaBSRDisambiguator(b).visit(): new_bsr is b itself when visit returns at once.
DisambiguatorVisit(b) ==
    IF b.start = <<>> \/ b.start \notin DOMAIN b.epns
    THEN [cls |-> "IgneaBSRDisambiguator", error |-> "none", position |-> PositionOf(0),
          new_bsr |-> b]
    ELSE DisambiguatorLoop(b, <<b.epns[b.start]>>, [start |-> b.start, epns |-> <<>>])

\* The default disambiguator is run on the BSR of a parse() that returned.
Disambiguate ==
    /\ status.kind = "returned"
    /\ visitor.cls = "none"
    /\ visitor' = DisambiguatorVisit(bsr)
    /\ UNCHANGED <<lexer_vars, construction_vars, declaration_vars, semantic_vars, grammar, bsr, _eoi, _memo, frames, status>>

(***************************************************************************)
(* IgneaBSRVisitor.visit as IgneaBSRPruner runs it: its descend adds every  *)
(* EPN of the list to new_bsr and keeps the list, its bottom is False.      *)
(***************************************************************************)
\* Lines 83-93: the lists the loop over epns appends to descend_queue.
RECURSIVE ChildrenOf(_, _)
ChildrenOf(b, epns) ==
    IF epns = {} THEN <<>>
    ELSE LET epn == CHOOSE e \in epns : TRUE
             left == left_children(b, epn)
             right == right_children(b, epn)
         IN  (IF left # {} THEN <<left>> ELSE <<>>)
                 \o (IF right # {} THEN <<right>> ELSE <<>>)
                 \o ChildrenOf(b, epns \ {epn})

\* PrunerLoop, had the children of no EPN been enqueued.
PrunerLoopStart(b, queue, new_bsr) == Add(new_bsr, Head(queue))

\* The loop of visit: queue is descend_queue, new_bsr the BSR being built from b.
RECURSIVE PrunerLoop(_, _, _)
PrunerLoop(b, queue, new_bsr) ==
    IF queue = <<>> THEN new_bsr
    ELSE PrunerLoop(b, Tail(queue) \o ChildrenOf(b, Head(queue)), Add(new_bsr, Head(queue)))

\* new_bsr after IgneaBSRPruner(b).visit(): b itself when visit returns at once.
PrunerVisit(b) ==
    IF b.start = <<>> \/ b.start \notin DOMAIN b.epns
    THEN b
    ELSE IF b.epns[b.start] = {} THEN b
    ELSE PrunerLoop(b, <<b.epns[b.start]>>, [start |-> b.start, epns |-> <<>>])

\* IgneaBSRPruner(bsr).visit() and apply() on the BSR of a parse() that returned: bsr
\* takes the epns and the start of new_bsr; before is history, the BSR as it was.
Prune ==
    /\ status.kind = "returned"
    /\ visitor.cls = "none"
    /\ bsr' = [start |-> PrunerVisit(bsr).start, epns |-> PrunerVisit(bsr).epns]
    /\ visitor' = [cls |-> "IgneaBSRPruner", error |-> "none", position |-> PositionOf(0),
                   new_bsr |-> bsr', before |-> bsr]
    /\ UNCHANGED <<lexer_vars, construction_vars, declaration_vars, semantic_vars, grammar, _eoi, _memo, frames, status>>

(***************************************************************************)
(* IgneaBSRVisitor.visit as a subclass of IgneaBSRDisambiguator runs it     *)
(* whose disambiguate returns one EPN of the list: pick[epns].  visited are *)
(* the lists descend was called with, disambiguated those passed on to      *)
(* disambiguate, in the order of the calls.                                 *)
(***************************************************************************)
\* The EPN sets of b of more than one EPN.
AmbiguousSets(b) == {b.epns[k] : k \in {j \in DOMAIN b.epns : Cardinality(b.epns[j]) > 1}}

\* What disambiguate may be: the functions from the sets to one EPN of each.
RECURSIVE Picks(_)
Picks(sets) ==
    IF sets = {} THEN {<<>>}
    ELSE LET S == CHOOSE T \in sets : TRUE
         IN  {(S :> e) @@ f : e \in S, f \in Picks(sets \ {S})}

\* Line 156, had descend taken an EPN of the list without calling disambiguate.
DisambiguatorDescendAny(epns, pick) == CHOOSE e \in epns : TRUE

\* Line 156: epn = self.disambiguate(epns) if len(epns) > 1 else epns[0]
DisambiguatorDescend(epns, pick) ==
    IF Cardinality(epns) > 1 THEN pick[epns] ELSE CHOOSE e \in epns : TRUE

RECURSIVE ChooserLoop(_, _, _, _, _, _)
ChooserLoop(b, queue, new_bsr, pick, visited, disambiguated) ==
    IF queue = <<>>
    THEN [cls |-> "Chooser", error |-> "none", position |-> PositionOf(0),
          new_bsr |-> new_bsr, pick |-> pick, visited |-> visited,
          disambiguated |-> disambiguated]
    ELSE LET epns == Head(queue)
             epn == DisambiguatorDescend(epns, pick)
         IN  ChooserLoop(b, Tail(queue) \o ChildrenOf(b, {epn}), Add(new_bsr, {epn}), pick,
                         Append(visited, epns),
                         IF Cardinality(epns) > 1 THEN Append(disambiguated, epns)
                         ELSE disambiguated)

\* visit() of the subclass on b: new_bsr is b itself when visit returns at once.
ChooserVisit(b, pick) ==
    IF b.start = <<>> \/ b.start \notin DOMAIN b.epns
    THEN [cls |-> "Chooser", error |-> "none", position |-> PositionOf(0),
          new_bsr |-> b, pick |-> pick, visited |-> <<>>, disambiguated |-> <<>>]
    ELSE ChooserLoop(b, <<b.epns[b.start]>>, [start |-> b.start, epns |-> <<>>], pick,
                     <<>>, <<>>)

\* The subclass is run on the BSR of a parse() that returned; bsr is left as it is (apply
\* is not called).
DisambiguateChosen ==
    /\ status.kind = "returned"
    /\ visitor.cls = "none"
    /\ \E pick \in Picks(AmbiguousSets(bsr)) : visitor' = ChooserVisit(bsr, pick)
    /\ UNCHANGED <<lexer_vars, construction_vars, declaration_vars, semantic_vars, grammar, bsr, _eoi, _memo, frames, status>>

ParserNext ==
    \/ Parse
    \/ DeriveSingleTerminalTag
    \/ DeriveMemoized
    \/ DeriveDescend
    \/ DeriveRaise
    \/ DeriveReturn
    \/ DescendStep
    \/ DescendFailed
    \/ DescendAsserted
    \/ DescendReturned
    \/ AscendStep
    \/ AscendReturn
    \/ ParseNothing
    \/ ParseNoDerivation
    \/ ParseDerivation
    \/ Disambiguate
    \/ Prune
    \/ DisambiguateChosen

ParserSpec == ParserInit /\ [][ParserNext]_vars

(***************************************************************************)
(* Properties of parse()                                                    *)
(***************************************************************************)
\* parse() has ended: it returned or raised.
Ended == status.kind \notin {"none", "constructed", "parsing"}

\* C14: parse() lets no IgneaDerivationException escape: for every grammar and input it
\* returns or raises a no-derivation, no-terminal-tag or indentation error, nothing else.
\* Refuted by the assertion of _derive_single_nonterminal_type, which fails for a start
\* symbol that derives the empty string.
ParseRaises ==
    Ended => status.kind \in {"returned", "NoDerivation", "NoTerminalTag", "Indentation"}

\* C15: when parse() returns with _eoi set, bsr.start is the key of the start symbol from
\* lexer.start_position to the end of _eoi, the key is in bsr.epns and the lexer has
\* nothing after _eoi; when parse() looks that key up and it is absent, it raises the
\* no-derivation error at the start of _eoi and bsr.start stays None.
ParseCompletion ==
    [][/\ (status'.kind = "returned" /\ _eoi' # None) =>
              /\ bsr'.start = Key(_nonterminal_type_start, <<>>, 0, _eoi')
              /\ bsr'.start \in DOMAIN bsr'.epns
              /\ terminals'[_eoi'].next = None
              /\ last'.arg = _eoi' /\ last'.kind = "return" /\ last'.result = None
       /\ (Derived /\ _eoi # None
              /\ Key(_nonterminal_type_start, <<>>, 0, _eoi) \notin DOMAIN bsr.epns) =>
              /\ status'.kind = "NoDerivation"
              /\ status'.position = terminals[_eoi].start_position
              /\ bsr'.start = <<>>]_vars

\* parse() returned on an input of several terminals.
ParseCompletionWitness ==
    /\ status.kind = "returned"
    /\ _eoi > 1
    /\ bsr.start = Key(_nonterminal_type_start, <<>>, 0, _eoi)

\* The input is empty or has ignored matches only (blanks, in the lexers parsed from).
OnlyIgnored == \A i \in DOMAIN input : input[i] = " "

\* C16: for an input that is empty or consists only of ignored matches, parse() returns
\* without raising and leaves bsr.start None, whatever the grammar.  Refuted by the
\* grammars whose start symbol derives the empty string (C14).
ParseOfNothing ==
    (OnlyIgnored /\ Ended) => (status.kind = "returned" /\ bsr.start = <<>>)

\* C17: when the start symbol derives the terminals up to _eoi and the lexer yields a
\* further terminal after _eoi, parse() raises the no-derivation error at the start of
\* that terminal and does not set bsr.start.
ParseOfPrefix ==
    [][(/\ Derived /\ _eoi # None
        /\ Key(_nonterminal_type_start, <<>>, 0, _eoi) \in DOMAIN bsr.epns
        /\ status' # status
        /\ last'.kind = "return" /\ last'.result # None) =>
           /\ last'.arg = _eoi
           /\ terminals'[_eoi].next = last'.result
           /\ status'.kind = "NoDerivation"
           /\ status'.position = terminals'[last'.result].start_position
           /\ bsr'.start = <<>>]_vars

\* parse() raised after the start symbol was derived over a prefix.
ParseOfPrefixWitness ==
    /\ status.kind = "NoDerivation"
    /\ _eoi # None
    /\ Key(_nonterminal_type_start, <<>>, 0, _eoi) \in DOMAIN bsr.epns
    /\ terminals[_eoi].next # None
    /\ status.position = terminals[terminals[_eoi].next].start_position

\* A call is in progress or due: the states where ParserNext is enabled.
Running ==
    \/ status.kind \in {"constructed", "parsing"}
    \/ status.kind = "returned" /\ visitor.cls = "none"

\* Every call in progress goes on, parse() being one thread of control: this is
\* WF_vars(ParserNext) with ENABLED <<ParserNext>>_vars written out as Running.
ParserFairSpec == ParserSpec /\ ([]<>~Running \/ []<><<ParserNext>>_vars)

\* E -> E "+" N | N, N -> NUM on "1+2+3": the terminals are 1 to 5, a position
\* reference is the number of terminals before it.
ExprScenario == grammar = "expr" /\ input = <<"1", "+", "2", "+", "3">>

\* The one EPN of E with the string, split and end given.
ExprEPN(string, split, end) == EPN("E", ParsingState(string, 0, split, end))

\* The left-nested derivation E[E[E[N] + N] + N]: E over 0-5 splits into E "+" over 0-4
\* and N over 4-5, E "+" into E over 0-3 and "+", that E likewise into E over 0-1, which
\* is N over 0-1.
ExprDerived ==
    /\ status.kind = "returned"
    /\ bsr.start = Key("E", <<>>, 0, 5)
    /\ PositionOf(0).index_ = 0 /\ PositionOf(5).index_ = 5
    /\ PositionOf(1).index_ = 1 /\ PositionOf(3).index_ = 3
    /\ bsr.epns[Key("E", <<>>, 0, 5)] = {ExprEPN(<<"E", "PLUS", "N">>, 4, 5)}
    /\ bsr.epns[Key("E", <<>>, 0, 3)] = {ExprEPN(<<"E", "PLUS", "N">>, 2, 3)}
    /\ bsr.epns[Key("E", <<>>, 0, 1)] = {ExprEPN(<<"N">>, 0, 1)}
    /\ \A n \in {1, 3, 5} :
          /\ right_children(bsr, CHOOSE e \in bsr.epns[Key("E", <<>>, 0, n)] : TRUE)
                = {EPN("N", ParsingState(<<"NUM">>, n - 1, n - 1, n))}
          /\ n > 1 =>
                \E plus \in left_children(bsr, CHOOSE e \in bsr.epns[Key("E", <<>>, 0, n)] : TRUE) :
                \E e \in left_children(bsr, plus) :
                   /\ plus = EPN(NoType, ParsingState(<<"E", "PLUS">>, 0, n - 2, n - 1))
                   /\ e = EPN(NoType, ParsingState(<<"E">>, 0, 0, n - 2))
                   /\ right_children(bsr, e) = bsr.epns[Key("E", <<>>, 0, n - 2)]

\* C18: for E -> E "+" N | N, N -> NUM and the input "1+2+3", parse() terminates with
\* bsr.start = (E, index 0, index 5) and the BSR holds the left-nested derivation
\* E[E[E[N] + N] + N], E being derived over the spans 0-1, 0-3 and 0-5.
LeftRecursion == <>[](ExprScenario => ExprDerived)

LeftRecursionWitness == ExprScenario /\ ExprDerived

\* A -> A A | "a" on "aaa".
AmbScenario == grammar = "amb" /\ input = <<"a", "a", "a">>

\* C19: for A -> A A | "a" and the input "aaa", after parse() the EPN set at the key
\* (A, index 0, index 3) holds two distinct EPNs, split after the first and after the
\* second terminal, and the default disambiguator run on that BSR raises the
\* ambiguous-grammar error at index 0.
Ambiguity ==
    (AmbScenario /\ Ended) =>
        /\ status.kind = "returned"
        /\ PositionOf(0).index_ = 0 /\ PositionOf(3).index_ = 3
        /\ PositionOf(1).index_ = 1 /\ PositionOf(2).index_ = 2
        /\ bsr.start = Key("A", <<>>, 0, 3)
        /\ bsr.epns[Key("A", <<>>, 0, 3)] =
              {EPN("A", ParsingState(<<"A", "A">>, 0, 1, 3)),
               EPN("A", ParsingState(<<"A", "A">>, 0, 2, 3))}
        /\ visitor.cls = "IgneaBSRDisambiguator" =>
              /\ visitor.error = "AmbiguousGrammar"
              /\ visitor.position.index_ = 0

\* The disambiguator has run on the BSR of "aaa".
AmbiguityWitness == AmbScenario /\ visitor.cls = "IgneaBSRDisambiguator"

\* The EPNs of the BSR.
EPNs == UNION {bsr.epns[k] : k \in DOMAIN bsr.epns}

\* The intermediate EPNs with the prefix of epn's string filed under the key of its
\* left part.
Prefixes(epn) ==
    LET state == epn.state
        key == Key(NoType, SubSeq(state.string, 1, Len(state.string) - 1),
                   state.start_position, state.split_position)
    IN  IF key \notin DOMAIN bsr.epns THEN {}
        ELSE {e \in bsr.epns[key] :
                 e.type_ = NoType
                 /\ e.state.string = SubSeq(state.string, 1, Len(state.string) - 1)}

\* The BSR is as parse() builds it: no transformer has been applied to it.
DuringParse == visitor.cls # "IgneaBSRPruner"

\* C20 as stated: in every BSR state reached during parse(), for every EPN whose string
\* has length >= 2, bsr.epns holds at the key (string[:-1], start_position,
\* split_position) an intermediate EPN with that prefix string, and left_children
\* returns it.  Refuted where the prefix derives nothing: left_children returns no EPN
\* when start_position is split_position.
BsrClosure ==
    DuringParse =>
    \A epn \in EPNs :
        Len(epn.state.string) >= 2 =>
            /\ Prefixes(epn) # {}
            /\ Prefixes(epn) \subseteq left_children(bsr, epn)

\* C20 amended: the same, left_children returning the intermediate EPN when
\* start_position is not split_position, and the empty set when it is.
BsrClosureSplit ==
    DuringParse =>
    \A epn \in EPNs :
        Len(epn.state.string) >= 2 =>
            /\ Prefixes(epn) # {}
            /\ IF epn.state.start_position # epn.state.split_position
               THEN Prefixes(epn) \subseteq left_children(bsr, epn)
               ELSE left_children(bsr, epn) = {}

\* The BSR holds an EPN of two symbols whose first spans input, and one whose first
\* spans none.
BsrClosureSplitWitness ==
    /\ DuringParse
    /\ \E epn \in EPNs :
          /\ Len(epn.state.string) >= 2
          /\ epn.state.start_position # epn.state.split_position
    /\ \E epn \in EPNs :
          /\ Len(epn.state.string) >= 2
          /\ epn.state.start_position = epn.state.split_position

(***************************************************************************)
(* Construction of parser classes with at most MaxTypes types: those with   *)
(* any start predicates and no first sets, and those with any first sets    *)
(* (naming types of the class) whose first type is the starting symbol.     *)
(***************************************************************************)
MaxTypes == 3

TypeNames == <<"V1", "V2", "V3", "V4", "V5">>

\* The NONTERMINAL_TYPES whose i-th type has start starts[i] and first the types at the
\* places firsts[i].
DeclaredTypes(starts, firsts) ==
    [i \in DOMAIN starts |->
        Nonterminal(TypeNames[i], starts[i], {TypeNames[j] : j \in firsts[i]}, <<>>)]

DeclareInit ==
    /\ LexerInit("kw", <<>>)
    /\ NoConstruction
    /\ NoParser
    /\ NoSemantic
    /\ \E k \in 0..MaxTypes :
          \/ \E starts \in [1..k -> BOOLEAN] :
                nonterminal_types = DeclaredTypes(starts, [i \in 1..k |-> {}])
          \/ \E firsts \in [1..k -> SUBSET (1..k)] :
                nonterminal_types = DeclaredTypes([i \in 1..k |-> i = 1], firsts)
    /\ parser_construction = [error |-> "pending"]

\* IgneaParser.__post_init__ on the class declared.
ConstructParser ==
    /\ parser_construction.error = "pending"
    /\ parser_construction' = ParserPostInit(nonterminal_types)
    /\ UNCHANGED <<lexer_vars, construction_vars, parser_vars, semantic_vars, nonterminal_types>>

DeclareSpec == DeclareInit /\ [][ConstructParser]_vars

\* The places in NONTERMINAL_TYPES of the types whose start(conditions) is true.
StartTypes == {i \in DOMAIN nonterminal_types : nonterminal_types[i].start}

\* The construction modelled has ended.
ParserConstructed == parser_construction.error \notin {"absent", "pending"}

\* C25: constructing a parser succeeds only when exactly one type of NONTERMINAL_TYPES
\* has start(conditions) true; with none the no-start conditions error is raised, with
\* two or more the multiple-starts conditions error, naming the second such type.
StartConditions ==
    ParserConstructed =>
        /\ parser_construction.error = "none" <=> Cardinality(StartTypes) = 1
        /\ StartTypes = {} => parser_construction.error = "NoStart"
        /\ Cardinality(StartTypes) >= 2 =>
              /\ parser_construction.error = "MultipleStarts"
              /\ \E i \in StartTypes :
                    /\ Cardinality({j \in StartTypes : j < i}) = 1
                    /\ parser_construction.nonterminal_type = nonterminal_types[i].name

\* Three starting symbols were declared, and construction has raised.
StartConditionsWitness ==
    /\ ParserConstructed
    /\ Cardinality(StartTypes) = 3
    /\ parser_construction.error = "MultipleStarts"

\* The FIRST graph of the class declared.
FirstGraph ==
    [n \in {nonterminal_types[i].name : i \in DOMAIN nonterminal_types} |->
        nonterminal_types[CHOOSE i \in DOMAIN nonterminal_types : nonterminal_types[i].name = n].first]

\* The nodes reached from the nodes of S along the edges of graph.
RECURSIVE Reach(_, _)
Reach(graph, S) ==
    LET next == S \cup UNION {graph[v] : v \in S}
    IN  IF next = S THEN S ELSE Reach(graph, next)

\* Each of v and w is reachable from the other.
Mutual(graph, v, w) == w \in Reach(graph, {v}) /\ v \in Reach(graph, {w})

\* C27: on every finite graph whose edge targets are keys of the graph,
\* ignea_compute_sccs returns sets that partition the nodes, two nodes being in the same
\* set iff each is reachable from the other.
SccPartition ==
    parser_construction.error = "none" =>
        LET sccs == parser_construction.sccs
            vertices == DOMAIN FirstGraph
        IN  /\ \A i \in DOMAIN sccs : sccs[i] # {} /\ sccs[i] \subseteq vertices
            /\ \A i, j \in DOMAIN sccs : i # j => sccs[i] \cap sccs[j] = {}
            /\ UNION {sccs[i] : i \in DOMAIN sccs} = vertices
            /\ \A v, w \in vertices :
                  (\E i \in DOMAIN sccs : v \in sccs[i] /\ w \in sccs[i])
                      <=> Mutual(FirstGraph, v, w)

\* A graph with a cycle through two nodes and a node outside it has been decomposed.
SccPartitionWitness ==
    /\ parser_construction.error = "none"
    /\ Len(parser_construction.sccs) >= 2
    /\ \E i \in DOMAIN parser_construction.sccs : Cardinality(parser_construction.sccs[i]) >= 2

\* C28: after construction a nonterminal v is a key of the first-in-SCC table and of the
\* ascend-parents table iff its SCC S has more than one member or v is in first(v); for
\* such v, first-in-SCC(v) is first(v) intersected with S and ascend-parents(v) lists
\* the members w of S with v in first(w); a one-node SCC without a self-edge gets no entry.
AscendTables ==
    parser_construction.error = "none" =>
        \A v \in DOMAIN FirstGraph :
            LET S == {w \in DOMAIN FirstGraph : Mutual(FirstGraph, v, w)}
                first_in_scc == parser_construction._nonterminal_types_first
                parents == parser_construction.nonterminal_types_ascend_parents
                keyed == Cardinality(S) > 1 \/ v \in FirstGraph[v]
            IN  /\ v \in DOMAIN first_in_scc <=> keyed
                /\ v \in DOMAIN parents <=> keyed
                /\ keyed =>
                      /\ first_in_scc[v] = FirstGraph[v] \cap S
                      /\ {parents[v][i] : i \in DOMAIN parents[v]}
                             = {w \in S : v \in FirstGraph[w]}
                      /\ Len(parents[v]) = Cardinality({w \in S : v \in FirstGraph[w]})

\* A class with a left-recursive group of two types and a type of no group was
\* constructed.
AscendTablesWitness ==
    /\ parser_construction.error = "none"
    /\ \E v \in DOMAIN FirstGraph : v \notin DOMAIN parser_construction._nonterminal_types_first
    /\ \E v \in DOMAIN parser_construction._nonterminal_types_first :
          Cardinality(parser_construction._nonterminal_types_first[v]) = 1
          /\ v \notin parser_construction._nonterminal_types_first[v]

(***************************************************************************)
(* Properties of derive                                                     *)
(***************************************************************************)
\* The FIRST graph of the parser's class.
GrammarFirst == [n \in DOMAIN TypeClasses[grammar] |-> TypeClasses[grammar][n].first]

\* The SCC of the nonterminal type v in it.
Component(v) == {w \in DOMAIN GrammarFirst : Mutual(GrammarFirst, v, w)}

\* v belongs to a left-recursive SCC.
InLeftRecursion(v) ==
    /\ v \in DOMAIN GrammarFirst
    /\ Cardinality(Component(v)) > 1 \/ v \in GrammarFirst[v]

\* frames[i] is a call of derive with an ascend argument that is no bool: the call by
\* parse() and the calls by descend methods.
DeriveDecides(i) ==
    /\ frames[i].op = "derive"
    /\ ~IsTerminalTag(frames[i].cls)
    /\ i = 1 \/ frames[i - 1].op = "descend"

\* The caller that call was given: the type descending, for its rule's first symbol.
CallerOf(i) ==
    IF i > 1 /\ frames[i - 1].sym = 0 THEN frames[i - 1].cls ELSE NoType

\* C26: when derive is called for a nonterminal callee with ascend no bool, ascent is
\* enabled iff the callee belongs to a left-recursive SCC and no caller is given, or the
\* caller belongs to no left-recursive SCC, or the callee is not in first(caller)
\* restricted to the caller's SCC.
AscendDecision ==
    \A i \in DOMAIN frames :
        DeriveDecides(i) =>
            (frames[i].ascend <=>
                /\ InLeftRecursion(frames[i].cls)
                /\ \/ CallerOf(i) = NoType
                   \/ ~InLeftRecursion(CallerOf(i))
                   \/ frames[i].cls \notin GrammarFirst[CallerOf(i)] \cap Component(CallerOf(i)))

\* A left-recursive caller derives a left-recursive callee of another SCC, ascending.
AscendDecisionWitness ==
    \E i \in DOMAIN frames :
        /\ DeriveDecides(i)
        /\ CallerOf(i) # NoType
        /\ InLeftRecursion(CallerOf(i))
        /\ InLeftRecursion(frames[i].cls)
        /\ frames[i].cls \in GrammarFirst[CallerOf(i)]
        /\ frames[i].ascend

\* The step is a call of ascend by _derive_single_nonterminal_type, whose descend has
\* returned.
AscendCalled ==
    /\ frames # <<>> /\ Top(frames).op = "descend"
    /\ frames' # <<>> /\ Top(frames').op = "ascend"

\* The memo set of the (nonterminal, position) of the call of
\* _derive_single_nonterminal_type that frames[i] is.
MemoAt(memo, i) == memo[<<frames[i].cls, EndPosition(frames[i].state)>>]

\* No memo set loses a member, and ascend is called only when the memo set of its
\* (nonterminal, position) is larger than it was when descend was called.
MemoGrowth ==
    /\ \A k \in DOMAIN _memo : k \in DOMAIN _memo' /\ _memo[k] \subseteq _memo'[k]
    /\ AscendCalled =>
          Cardinality(MemoAt(_memo', Len(frames) - 1)) > frames[Len(frames) - 1].n

\* The parser's class has direct or mutual left recursion.
LeftRecursiveGrammar == \E v \in DOMAIN GrammarFirst : InLeftRecursion(v)

\* C29: ascend is invoked for a nonterminal at a position only after a descend that
\* strictly enlarged the memo set of that (nonterminal, position), and memo sets never
\* shrink; for every grammar with direct or mutual left recursion whose descend methods
\* pass their own type as caller for first-position symbols, and every input, parse()
\* terminates.
AscentTerminates == [][MemoGrowth]_vars /\ <>(LeftRecursiveGrammar => Ended)

\* parse() of a class with mutual left recursion has returned a derivation, having
\* ascended: a memo set holds two end terminals.
AscentTerminatesWitness ==
    /\ grammar = "mutual"
    /\ status.kind = "returned"
    /\ bsr.start # <<>>
    /\ \E k \in DOMAIN _memo : Cardinality(_memo[k]) >= 2

(***************************************************************************)
(* Properties of the BSR visitors                                           *)
(***************************************************************************)
\* The EPNs of b reached from the EPNs of S by left_children and right_children.
RECURSIVE ReachedEPNs(_, _)
ReachedEPNs(b, S) ==
    LET next == S \cup UNION {left_children(b, e) \cup right_children(b, e) : e \in S}
    IN  IF next = S THEN S ELSE ReachedEPNs(b, next)

\* C24: after IgneaBSRPruner visit() and apply() on a BSR b with a start key, b.start is
\* unchanged and b.epns holds exactly the EPNs of the original b that are reachable from
\* the EPN set at b.start by left_children and right_children.
PrunerKeeps ==
    (visitor.cls = "IgneaBSRPruner" /\ visitor.before.start # <<>>) =>
        /\ bsr.start = visitor.before.start
        /\ EPNs = ReachedEPNs(visitor.before, visitor.before.epns[visitor.before.start])
        /\ \A k \in DOMAIN bsr.epns :
              /\ k \in DOMAIN visitor.before.epns
              /\ bsr.epns[k] # {}
              /\ bsr.epns[k] \subseteq visitor.before.epns[k]

\* The pruner has dropped EPNs of a BSR with a start key.
PrunerKeepsWitness ==
    /\ visitor.cls = "IgneaBSRPruner"
    /\ visitor.before.start # <<>>
    /\ EPNs # UNION {visitor.before.epns[k] : k \in DOMAIN visitor.before.epns}

(***************************************************************************)
(* The visitors' singletons: IgneaBSRVisitor.get and IgneaTreeVisitor.get    *)
(***************************************************************************)
\* The visitor classes of common.py with the class each one extends.
VisitorBases ==
    [IgneaBSRVisitor |-> "object", IgneaBSRTransformer |-> "IgneaBSRVisitor",
     IgneaBSRPruner |-> "IgneaBSRTransformer", IgneaBSRDisambiguator |-> "IgneaBSRTransformer",
     IgneaTreeVisitor |-> "object", IgneaTreePositionFixer |-> "IgneaTreeVisitor",
     IgneaTreePositionUnfixer |-> "IgneaTreeVisitor"]

VisitorClasses == DOMAIN VisitorBases

\* The BSRs or trees handed to get.
Roots == {"r1", "r2"}

\* cls._instance as Python reads it: the attribute of the first class that has one, from
\* cls up its bases.
RECURSIVE ClassInstance(_, _)
ClassInstance(dict, cls) ==
    IF cls \in DOMAIN dict THEN dict[cls] ELSE ClassInstance(dict, VisitorBases[cls])

\* cls.get(root), lines 37-44 and 334-341. A visitor is named by the class whose get
\* constructed it: a class constructs at most one.
Get(cls, root) ==
    /\ LET found == ClassInstance(_instance, cls)
       IN  IF found = "None"
           THEN /\ _instance' = (cls :> cls) @@ _instance
                /\ instances' = (cls :> [cls |-> cls, root |-> root]) @@ instances
           ELSE /\ instances' = [instances EXCEPT ![found].root = root]
                /\ UNCHANGED _instance
    /\ got' = [cls |-> cls, root |-> root, instance |-> ClassInstance(_instance', cls)]
    /\ gets' = IF got.cls = "none" THEN gets ELSE gets \cup {<<got.cls, got.instance>>}
    /\ UNCHANGED <<lexer_vars, construction_vars, parser_vars, declaration_vars, tree_vars, bsrs>>

VisitorInit ==
    /\ LexerInit("kw", <<>>)
    /\ NoConstruction
    /\ NoParser
    /\ NoDeclaration
    /\ NoSemantic

VisitorNext == \E cls \in VisitorClasses : \E root \in Roots : Get(cls, root)

VisitorSpec == VisitorInit /\ [][VisitorNext]_vars

\* C23: C.get(root) returns an instance of class C whose root is the argument, the same
\* instance that any earlier C.get returned, whatever get calls on C, its superclasses and
\* its subclasses came before.
PerClassSingleton ==
    got.cls # "none" =>
        /\ instances[got.instance].cls = got.cls
        /\ instances[got.instance].root = got.root
        /\ \A earlier \in gets : earlier[1] = got.cls => earlier[2] = got.instance

(***************************************************************************)
(* Trees: IgneaTerminalTreeNode, IgneaNonterminalTreeNode and the position  *)
(* visitors.  A node is an entry of nodes; its start_position refers to a   *)
(* position object: StartOf(k) is terminals[k].start_position, k > 0 is     *)
(* terminals[k].end_position and 0 the start_position of the lexer.         *)
(***************************************************************************)
\* Nonterminal nodes of a tree at most.
MaxNonterminals == 3

\* The nonterminal types of the trees.
TreeTypes == {"X", "Y"}

TreeInputs == {<<"a">>, <<"a", "o">>, <<"a", " ", "o", "a">>}

StartOf(k) == 0 - k

\* The position object referred to, start positions of terminals included.
PositionObject(ref) == IF ref < 0 THEN terminals[0 - ref].start_position ELSE PositionOf(ref)

TerminalTreeNode(type_, start_pos, end_terminal) ==
    [kind |-> "terminal", type_ |-> type_, start_position |-> start_pos,
     end_terminal |-> end_terminal, children |-> <<>>]

NonterminalTreeNode(type_, start_pos, end_terminal, children) ==
    [kind |-> "nonterminal", type_ |-> type_, start_position |-> start_pos,
     end_terminal |-> end_terminal, children |-> children]

\* The order in which IgneaTreeVisitor.visit hands the nodes to a descend that returns
\* each of them: queue is descend_queue.
RECURSIVE DescendOrder(_, _)
DescendOrder(ns, queue) ==
    IF queue = <<>> THEN <<>>
    ELSE <<Head(queue)>> \o DescendOrder(ns, Tail(queue) \o ns[Head(queue)].children)

\* IgneaTreePositionUnfixer.descend(node)
UnfixerDescend(ns, node) ==
    LET children == ns[node].children
        unfixed == [k \in DOMAIN ns |->
            IF \E i \in DOMAIN children : children[i] = k
            THEN LET i == CHOOSE j \in DOMAIN children : children[j] = k
                 IN  [ns[k] EXCEPT !.start_position =
                        IF i = 1 THEN ns[node].start_position
                        ELSE ns[children[i - 1]].end_terminal]
            ELSE ns[k]]
    IN  SubSeq(unfixed, 1, Len(ns))

\* IgneaTreePositionFixer.ascend(node)
FixerAscend(ns, node) ==
    [ns EXCEPT ![node].start_position =
        IF ns[node].kind = "nonterminal" THEN ns[ns[node].children[1]].start_position
        ELSE StartOf(ns[node].end_terminal)]

RECURSIVE UnfixerLoop(_, _)
UnfixerLoop(ns, queue) ==
    IF queue = <<>> THEN ns ELSE UnfixerLoop(UnfixerDescend(ns, Head(queue)), Tail(queue))

RECURSIVE FixerLoop(_, _)
FixerLoop(ns, stack) ==
    IF stack = <<>> THEN ns
    ELSE FixerLoop(FixerAscend(ns, stack[Len(stack)]), SubSeq(stack, 1, Len(stack) - 1))

\* The ascent of the fixer, had it gone through the nodes in the order of the descent.
FixerStackDescending(order) == [i \in DOMAIN order |-> order[Len(order) + 1 - i]]

\* ascend_stack when the descent of the fixer is over: the nodes in the order of descent.
FixerStack(order) == order

\* IgneaTreePositionUnfixer.get(tree).visit()
UnfixerVisit(ns, tree) == UnfixerLoop(ns, DescendOrder(ns, <<tree>>))

\* IgneaTreePositionFixer.get(tree).visit()
FixerVisit(ns, tree) == FixerLoop(ns, FixerStack(DescendOrder(ns, <<tree>>)))

TreeInit ==
    /\ \E text \in TreeInputs : LexerInit("abo", text)
    /\ NoConstruction
    /\ NoParser
    /\ NoDeclaration
    /\ NoSingleton
    /\ nodes = <<>>
    /\ forest = <<>>
    /\ stage = [at |-> "lexing"]
    /\ visit = [at |-> "none"]

\* The program lexes the input to its end.
TreeLex ==
    /\ stage.at = "lexing"
    /\ last.kind \in {"init", "return"}
    /\ ~(last.kind = "return" /\ last.result = None)
    /\ NextTerminal(IF last.kind = "init" THEN None ELSE last.result)
    /\ UNCHANGED <<construction_vars, parser_vars, declaration_vars, semantic_vars>>

\* The program makes the leaves: a terminal node for each of some terminals in a row,
\* starting where its terminal starts.
TerminalNodes ==
    /\ stage.at = "lexing"
    /\ last.kind = "return" /\ last.result = None
    /\ \E from \in DOMAIN terminals : \E to \in from..Len(terminals) :
          /\ nodes' = [i \in 1..(to - from + 1) |->
                          TerminalTreeNode(CHOOSE t \in terminals[from + i - 1].tags : TRUE,
                                           StartOf(from + i - 1), from + i - 1)]
          /\ forest' = [i \in 1..(to - from + 1) |-> i]
    /\ stage' = [at |-> "building"]
    /\ UNCHANGED <<lexer_vars, construction_vars, parser_vars, declaration_vars, singleton_vars, visit>>

\* The program puts some roots in a row under a new nonterminal node, which starts where
\* the first of them does.
NonterminalNode ==
    /\ stage.at = "building"
    /\ Cardinality({k \in DOMAIN nodes : nodes[k].kind = "nonterminal"}) < MaxNonterminals
    /\ \E from \in DOMAIN forest : \E to \in from..Len(forest) : \E type_ \in TreeTypes :
          /\ nodes' = Append(nodes,
                NonterminalTreeNode(type_, nodes[forest[from]].start_position,
                                    nodes[forest[to]].end_terminal, SubSeq(forest, from, to)))
          /\ forest' = SubSeq(forest, 1, from - 1) \o <<Len(nodes) + 1>>
                          \o SubSeq(forest, to + 1, Len(forest))
    /\ UNCHANGED <<lexer_vars, construction_vars, parser_vars, declaration_vars, singleton_vars, stage, visit>>

\* The tree is built: one root, a nonterminal.  before keeps the nodes as they are now.
TreeBuilt ==
    /\ stage.at = "building"
    /\ Len(forest) = 1
    /\ nodes[forest[1]].kind = "nonterminal"
    /\ stage' = [at |-> "built", before |-> nodes]
    /\ UNCHANGED <<lexer_vars, construction_vars, parser_vars, declaration_vars, singleton_vars, nodes, forest, visit>>

\* IgneaTreePositionUnfixer.get(tree).visit() on the tree built
Unfix ==
    /\ stage.at = "built"
    /\ nodes' = UnfixerVisit(nodes, forest[1])
    /\ stage' = [stage EXCEPT !.at = "unfixed"]
    /\ UNCHANGED <<lexer_vars, construction_vars, parser_vars, declaration_vars, singleton_vars, forest, visit>>

\* IgneaTreePositionFixer.get(tree).visit() on the tree unfixed
Fix ==
    /\ stage.at = "unfixed"
    /\ nodes' = FixerVisit(nodes, forest[1])
    /\ stage' = [stage EXCEPT !.at = "fixed"]
    /\ UNCHANGED <<lexer_vars, construction_vars, parser_vars, declaration_vars, singleton_vars, forest, visit>>

(***************************************************************************)
(* IgneaTreeToBSRConverter and IgneaBSRToTreeConverter                      *)
(***************************************************************************)
\* The EPNs that IgneaTreeToBSRConverter.descend adds for a node.
NodeEPNs(ns, node) ==
    IF ns[node].kind = "terminal" THEN {}
    ELSE LET children == ns[node].children
             string == [i \in DOMAIN children |-> ns[children[i]].type_]
         IN  {EPN(ns[node].type_,
                  ParsingState(string, ns[node].start_position,
                               IF children # <<>> THEN ns[children[Len(children)]].start_position
                               ELSE ns[node].start_position,
                               ns[node].end_terminal))}
             \cup {EPN(NoType,
                       ParsingState(SubSeq(string, 1, i), ns[node].start_position,
                                    ns[children[i]].start_position, ns[children[i]].end_terminal))
                   : i \in 1..(Len(children) - 1)}

\* The descent of IgneaTreeToBSRConverter over the nodes of queue, in that order.
RECURSIVE TreeToBSRLoop(_, _, _)
TreeToBSRLoop(ns, queue, b) ==
    IF queue = <<>> THEN b
    ELSE TreeToBSRLoop(ns, Tail(queue), Add(b, NodeEPNs(ns, Head(queue))))

\* bsr after IgneaTreeToBSRConverter(tree).visit(): top_before sets the start and runs the
\* unfixer, the descent reads the unfixed nodes.
TreeToBSR(ns, tree) ==
    TreeToBSRLoop(UnfixerVisit(ns, tree), DescendOrder(ns, <<tree>>),
                  [start |-> Key(ns[tree].type_, <<>>, ns[tree].start_position,
                                 ns[tree].end_terminal),
                   epns |-> <<>>])

\* IgneaTreeToBSRConverter(tree).visit() on the tree built: bottom runs the fixer.
ToBSR ==
    /\ stage.at = "built"
    /\ nodes' = FixerVisit(UnfixerVisit(nodes, forest[1]), forest[1])
    /\ stage' = [at |-> "bsr", before |-> stage.before, bsr |-> TreeToBSR(nodes, forest[1])]
    /\ UNCHANGED <<lexer_vars, construction_vars, parser_vars, declaration_vars, singleton_vars, forest, visit>>

\* Lines 83-93 of visit: the sets of children that the loop over the list epns appends
\* to descend_queue.
RECURSIVE ChildrenOfList(_, _)
ChildrenOfList(b, epns) ==
    IF epns = <<>> THEN <<>>
    ELSE LET left == left_children(b, Head(epns))
             right == right_children(b, Head(epns))
         IN  (IF left # {} THEN <<left>> ELSE <<>>)
                 \o (IF right # {} THEN <<right>> ELSE <<>>)
                 \o ChildrenOfList(b, Tail(epns))

\* The lists that list() can make of a set.
Orderings(S) ==
    {f \in [1..Cardinality(S) -> S] : \A i, j \in 1..Cardinality(S) : f[i] = f[j] => i = j}

\* IgneaBSRToTreeConverter(bsr).visit() begins: top_before, and descend_queue holds the
\* EPNs of the start.  lists remembers the list made of each set of EPNs.
FromBSR ==
    /\ stage.at = "bsr"
    /\ stage.bsr.start \in DOMAIN stage.bsr.epns
    /\ stage' = [at |-> "converting", before |-> stage.before, bsr |-> stage.bsr,
                 queue |-> <<stage.bsr.epns[stage.bsr.start]>>, lists |-> <<>>,
                 _parents |-> <<>>, tree |-> None, error |-> "none", line |-> 0]
    /\ UNCHANGED <<lexer_vars, construction_vars, parser_vars, declaration_vars, singleton_vars, nodes, forest, visit>>

\* parent.children.insert(1, node) or insert(0, node), lines 250-257.
InsertNode(ns, parent, node) ==
    LET children == ns[parent].children
    IN  IF /\ children # <<>>
           /\ PositionObject(ns[children[1]].start_position).index_
                 < PositionObject(ns[node].start_position).index_
        THEN [ns EXCEPT ![parent].children = <<children[1], node>> \o Tail(children)]
        ELSE [ns EXCEPT ![parent].children = <<node>> \o children]

\* The assertion that fails in IgneaBSRToTreeConverter.descend(epns) with the parent
\* taken from _parents (None: there is none), or 0.
DescendAssertion(epn, parent) ==
    IF epn.state.end_terminal = None THEN 240
    ELSE IF epn.type_ = NoType /\ parent = None THEN 263
    ELSE IF /\ right_children(stage.bsr, epn) = {}
            /\ epn.state.split_position # epn.state.end_terminal
            /\ ~IsTerminalTag(epn.state.string[Len(epn.state.string)])
    THEN 274
    ELSE 0

\* One turn of the descent of visit: IgneaBSRToTreeConverter.descend(epns) and the
\* children of the EPNs put in the queue.  The descent over a BSR made of a tree is
\* followed until it has made twice the nodes of that tree.
FromBSRDescend ==
    /\ stage.at = "converting"
    /\ stage.queue # <<>>
    /\ stage.before # <<>> => Len(nodes) < 3 * Len(stage.before)
    /\ \E epns \in IF Head(stage.queue) \in DOMAIN stage.lists
                   THEN {stage.lists[Head(stage.queue)]}
                   ELSE Orderings(Head(stage.queue)) :
          LET epn == epns[1]
              taken == IF stage._parents # <<>> THEN Head(stage._parents) ELSE None
              rest == IF stage._parents # <<>> THEN Tail(stage._parents) ELSE <<>>
              node == Len(nodes) + 1
              made == IF epn.type_ = NoType THEN nodes
                      ELSE LET ns == Append(nodes,
                                        NonterminalTreeNode(epn.type_, epn.state.start_position,
                                                            epn.state.end_terminal, <<>>))
                           IN  IF taken # None THEN InsertNode(ns, taken, node) ELSE ns
              parent == IF epn.type_ = NoType THEN taken ELSE node
              left == left_children(stage.bsr, epn)
              right == right_children(stage.bsr, epn)
              leaf == Len(made) + 1
              failed == DescendAssertion(epn, taken)
          IN  IF failed # 0
              THEN /\ stage' = [stage EXCEPT !.at = "raised", !.error = "AssertionError",
                                             !.line = failed]
                   /\ nodes' = IF failed = 240 THEN nodes ELSE made
              ELSE /\ nodes' =
                        IF right = {} /\ epn.state.split_position # epn.state.end_terminal
                        THEN [Append(made,
                                  TerminalTreeNode(epn.state.string[Len(epn.state.string)],
                                                   epn.state.split_position,
                                                   epn.state.end_terminal))
                                EXCEPT ![parent].children = <<leaf>> \o made[parent].children]
                        ELSE made
                   /\ stage' = [stage EXCEPT
                        !.lists = (Head(stage.queue) :> epns) @@ stage.lists,
                        !.tree = IF epn.type_ # NoType /\ taken = None THEN node ELSE @,
                        !._parents = rest \o (IF left # {} THEN <<parent>> ELSE <<>>)
                                          \o (IF right # {} THEN <<parent>> ELSE <<>>),
                        !.queue = Tail(@) \o ChildrenOfList(stage.bsr, epns)]
    /\ UNCHANGED <<lexer_vars, construction_vars, parser_vars, declaration_vars, singleton_vars, forest, visit>>

\* The descent is over: bottom runs the fixer on the tree made, and visit returns.
FromBSRBottom ==
    /\ stage.at = "converting"
    /\ stage.queue = <<>>
    /\ nodes' = IF stage.tree # None THEN FixerVisit(nodes, stage.tree) ELSE nodes
    /\ stage' = [stage EXCEPT !.at = "converted"]
    /\ UNCHANGED <<lexer_vars, construction_vars, parser_vars, declaration_vars, singleton_vars, forest, visit>>

\* The BSR of a parse() that returned with a start key is handed to
\* IgneaBSRToTreeConverter: no tree comes before it.
FromParse ==
    /\ status.kind = "returned"
    /\ visitor.cls = "none"
    /\ stage.at = "none"
    /\ bsr.start # <<>>
    /\ stage' = [at |-> "bsr", before |-> <<>>, bsr |-> bsr]
    /\ UNCHANGED <<lexer_vars, construction_vars, parser_vars, declaration_vars, singleton_vars, nodes, forest, visit>>

ConvertNext ==
    \/ ParserNext
    \/ FromParse
    \/ FromBSR
    \/ FromBSRDescend
    \/ FromBSRBottom

ConvertSpec == ParserInit /\ [][ConvertNext]_vars

(***************************************************************************)
(* IgneaTreeVisitor.visit and IgneaBSRVisitor.visit, step by step, run by a  *)
(* visitor whose hooks may return anything: descend keeps the item or       *)
(* returns None (an empty list), bottom returns True or False.  An entry of *)
(* descend_queue carries, beside the item, the number of the call of        *)
(* descend that put it there (0: visit itself); an entry of ascend_stack    *)
(* the number of the call of descend that returned it.                      *)
(***************************************************************************)
\* Nodes of a tree that is visited at most.
MaxVisited == 5

\* A call of a hook: descend number call on an item enqueued by the call parent, which
\* kept it or not; ascend of what call returned; bottom, which returned kept.
Call(hook, call, parent, kept, level_changed) ==
    [hook |-> hook, call |-> call, parent |-> parent, kept |-> kept,
     level_changed |-> level_changed]

Calls(log, hook) == SelectSeq(log, LAMBDA c : c.hook = hook)

\* visit() up to its loop: lines 344-348 and 54-58.
Visiting(cls, item) ==
    [at |-> "descent", cls |-> cls,
     descend_queue |-> <<[item |-> item, parent |-> 0]>>, ascend_stack |-> <<>>,
     descend_queue_levels |-> <<1, 0>>, ascend_stack_levels |-> <<1>>,
     log |-> <<Call("top_before", 0, 0, TRUE, FALSE)>>]

\* A visitor of the program's own visits the tree built.
VisitTree ==
    /\ stage.at = "built"
    /\ Len(nodes) <= MaxVisited
    /\ stage' = [stage EXCEPT !.at = "visiting"]
    /\ visit' = Visiting("IgneaTreeVisitor", forest[1])
    /\ UNCHANGED <<lexer_vars, construction_vars, parser_vars, declaration_vars, singleton_vars, nodes, forest>>

\* A visitor of the program's own visits the BSR made of the tree: lines 47-52 let it
\* pass, the start being a key of the BSR.
VisitBSR ==
    /\ stage.at = "bsr"
    /\ Len(nodes) <= MaxVisited
    /\ stage.bsr.start \in DOMAIN stage.bsr.epns
    /\ stage' = [stage EXCEPT !.at = "visiting"]
    /\ visit' = Visiting("IgneaBSRVisitor", stage.bsr.epns[stage.bsr.start])
    /\ UNCHANGED <<lexer_vars, construction_vars, parser_vars, declaration_vars, singleton_vars, nodes, forest>>

\* What descend may return for an item: the item or nothing; of several EPNs, also one.
DescendResults(cls, item) ==
    IF cls = "IgneaTreeVisitor" THEN {<<item>>, <<>>}
    ELSE Orderings(item) \cup {<<epn>> : epn \in item} \cup {<<>>}

\* The items that the loop puts in descend_queue for what descend returned.
VisitChildren(cls, result) ==
    IF cls = "IgneaTreeVisitor" THEN nodes[result[1]].children
    ELSE ChildrenOfList(stage.bsr, result)

\* What is put on ascend_stack for what descend returned.
Returned(cls, result) ==
    IF cls = "IgneaTreeVisitor" THEN result[1] ELSE {result[i] : i \in DOMAIN result}

\* The level changes when the count of the level after the current one is spent.
DescendLevelChangedNext(descend_queue_levels) == descend_queue_levels[2] = 0

\* Lines 354 and 64: the level changes when the count of the current level is spent.
DescendLevelChanged(descend_queue_levels) == descend_queue_levels[1] = 0

\* One turn of the loop of the descent, lines 350-376 and 60-93.  The descent is followed
\* for as many calls as the tree has nodes.
VisitDescend ==
    /\ visit.at = "descent"
    /\ visit.descend_queue # <<>>
    /\ Len(Calls(visit.log, "descend")) < Len(nodes)
    /\ LET entry == Head(visit.descend_queue)
           level_changed == DescendLevelChanged(visit.descend_queue_levels)
           levels == IF level_changed THEN <<visit.descend_queue_levels[2], 0>>
                     ELSE visit.descend_queue_levels
           ascend_levels == IF level_changed THEN Append(visit.ascend_stack_levels, levels[1])
                            ELSE visit.ascend_stack_levels
           call == Len(Calls(visit.log, "descend")) + 1
           last_level == Len(ascend_levels)
       IN  \E result \in DescendResults(visit.cls, entry.item) :
              visit' =
                IF result = <<>> /\ ascend_levels = <<>>
                THEN [visit EXCEPT !.at = "IndexError"]
                ELSE IF result = <<>>
                THEN [visit EXCEPT
                        !.descend_queue = Tail(@),
                        !.descend_queue_levels = <<levels[1] - 1, levels[2]>>,
                        !.ascend_stack_levels =
                            IF ascend_levels[last_level] = 1
                            THEN SubSeq(ascend_levels, 1, last_level - 1)
                            ELSE [ascend_levels EXCEPT ![last_level] = @ - 1],
                        !.log = Append(@, Call("descend", call, entry.parent, FALSE,
                                               level_changed))]
                ELSE LET children == VisitChildren(visit.cls, result)
                     IN  [visit EXCEPT
                            !.descend_queue = Tail(@) \o
                                [i \in DOMAIN children |-> [item |-> children[i], parent |-> call]],
                            !.descend_queue_levels = <<levels[1] - 1, levels[2] + Len(children)>>,
                            !.ascend_stack_levels = ascend_levels,
                            !.ascend_stack = Append(@, [item |-> Returned(visit.cls, result),
                                                        call |-> call]),
                            !.log = Append(@, Call("descend", call, entry.parent, TRUE,
                                                   level_changed))]
    /\ UNCHANGED <<lexer_vars, construction_vars, parser_vars, declaration_vars, singleton_vars, nodes, forest, stage>>

\* The descent is over and bottom() is called, lines 378-379 and 95-96: visit returns
\* when it is false.
VisitBottom ==
    /\ visit.at = "descent"
    /\ visit.descend_queue = <<>>
    /\ \E result \in BOOLEAN :
          visit' = [visit EXCEPT !.at = IF result THEN "ascent" ELSE "returned",
                                 !.log = Append(@, Call("bottom", 0, 0, result, FALSE))]
    /\ UNCHANGED <<lexer_vars, construction_vars, parser_vars, declaration_vars, singleton_vars, nodes, forest, stage>>

\* The place in ascend_stack of what is ascended next, had the ascent begun with what
\* was descended first.
AscendNextFirst(ascend_stack) == 1

\* ascend_stack.pop() takes the last.
AscendNext(ascend_stack) == Len(ascend_stack)

\* One turn of the loop of the ascent, lines 381-390 and 98-107.  Indexing the empty
\* ascend_stack_levels raises IndexError, here and in the descent.
VisitAscend ==
    /\ visit.at = "ascent"
    /\ visit.ascend_stack # <<>>
    /\ LET next == AscendNext(visit.ascend_stack)
           level_changed == /\ visit.ascend_stack_levels # <<>>
                            /\ visit.ascend_stack_levels[Len(visit.ascend_stack_levels)] = 0
           levels == IF level_changed
                     THEN SubSeq(visit.ascend_stack_levels, 1, Len(visit.ascend_stack_levels) - 1)
                     ELSE visit.ascend_stack_levels
       IN  visit' = IF levels = <<>> THEN [visit EXCEPT !.at = "IndexError"] ELSE
              [visit EXCEPT
                !.ascend_stack = SubSeq(@, 1, next - 1) \o SubSeq(@, next + 1, Len(@)),
                !.ascend_stack_levels = [levels EXCEPT ![Len(levels)] = @ - 1],
                !.log = Append(@, Call("ascend", visit.ascend_stack[next].call, 0, TRUE,
                                       level_changed))]
    /\ UNCHANGED <<lexer_vars, construction_vars, parser_vars, declaration_vars, singleton_vars, nodes, forest, stage>>

\* The ascent is over: top_after() and visit returns, lines 392 and 109.
VisitTopAfter ==
    /\ visit.at = "ascent"
    /\ visit.ascend_stack = <<>>
    /\ visit' = [visit EXCEPT !.at = "returned",
                              !.log = Append(@, Call("top_after", 0, 0, TRUE, FALSE))]
    /\ UNCHANGED <<lexer_vars, construction_vars, parser_vars, declaration_vars, singleton_vars, nodes, forest, stage>>

TreeNext ==
    \/ TreeLex
    \/ TerminalNodes
    \/ NonterminalNode
    \/ TreeBuilt
    \/ Unfix
    \/ Fix
    \/ ToBSR
    \/ FromBSR
    \/ FromBSRDescend
    \/ FromBSRBottom
    \/ VisitTree
    \/ VisitBSR
    \/ VisitDescend
    \/ VisitBottom
    \/ VisitAscend
    \/ VisitTopAfter

TreeSpec == TreeInit /\ [][TreeNext]_vars

(***************************************************************************)
(* IgneaTreeFold: fold() is visit() with the default descend, bottom True    *)
(* and the ascend of lines 447-460.  A fold result is the node it was made   *)
(* for, or None for the nodes of none.                                       *)
(***************************************************************************)
\* The program puts a nonterminal node without children among the roots.
ChildlessNode ==
    /\ stage.at = "building"
    /\ Cardinality({k \in DOMAIN nodes : nodes[k].kind = "nonterminal"}) < MaxNonterminals
    /\ \E at \in 1..(Len(forest) + 1) : \E type_ \in TreeTypes :
          /\ nodes' = Append(nodes,
                NonterminalTreeNode(type_, nodes[forest[1]].start_position,
                                    nodes[forest[1]].end_terminal, <<>>))
          /\ forest' = SubSeq(forest, 1, at - 1) \o <<Len(nodes) + 1>>
                          \o SubSeq(forest, at, Len(forest))
    /\ UNCHANGED <<lexer_vars, construction_vars, parser_vars, declaration_vars, singleton_vars, stage, visit>>

\* queue[-n:] of Python.
LastOf(queue, n) ==
    IF n = 0 \/ n >= Len(queue) THEN queue ELSE SubSeq(queue, Len(queue) - n + 1, Len(queue))

\* queue[:-n] of Python.
ButLastOf(queue, n) == IF n = 0 THEN <<>> ELSE SubSeq(queue, 1, Len(queue) - n)

\* The ascent of fold over ascend_stack, the last first: calls are the calls of
\* fold_internal so far.
RECURSIVE FoldLoop(_, _, _, _, _)
FoldLoop(ns, ascend_stack, _fold_queue, none, calls) ==
    IF ascend_stack = <<>>
    THEN [at |-> "folded", cls |-> "IgneaTreeFold", none |-> none, calls |-> calls,
          _fold_queue |-> _fold_queue]
    ELSE LET node == ascend_stack[Len(ascend_stack)]
             rest == SubSeq(ascend_stack, 1, Len(ascend_stack) - 1)
             fold == IF node \in none THEN None ELSE node
         IN  IF ns[node].kind = "nonterminal"
             THEN LET n == Len(ns[node].children)
                      fold_children == SelectSeq(LastOf(_fold_queue, n), LAMBDA f : f # None)
                  IN  FoldLoop(ns, rest, <<fold>> \o ButLastOf(_fold_queue, n), none,
                               Append(calls, [node |-> node, children |-> fold_children]))
             ELSE FoldLoop(ns, rest, <<fold>> \o _fold_queue, none, calls)

\* fold() on the tree built, fold_internal and fold_external returning None for the
\* nodes of none.
Fold ==
    /\ stage.at = "built"
    /\ Len(nodes) <= MaxVisited
    /\ \E none \in SUBSET DOMAIN nodes :
          visit' = FoldLoop(nodes, DescendOrder(nodes, <<forest[1]>>), <<>>, none, <<>>)
    /\ stage' = [stage EXCEPT !.at = "folded"]
    /\ UNCHANGED <<lexer_vars, construction_vars, parser_vars, declaration_vars, singleton_vars, nodes, forest>>

FoldNext ==
    \/ TreeLex
    \/ TerminalNodes
    \/ NonterminalNode
    \/ ChildlessNode
    \/ TreeBuilt
    \/ Fold

FoldSpec == TreeInit /\ [][FoldNext]_vars

(***************************************************************************)
(* Properties of the trees                                                  *)
(***************************************************************************)
\* Each terminal node starts where its end_terminal starts, each nonterminal node where
\* its first child starts, and the terminal of a child follows that of the child before.
WellFormed(ns) ==
    \A k \in DOMAIN ns :
        IF ns[k].kind = "terminal" THEN ns[k].start_position = StartOf(ns[k].end_terminal)
        ELSE /\ ns[k].children # <<>>
             /\ ns[k].start_position = ns[ns[k].children[1]].start_position
             /\ \A i \in 2..Len(ns[k].children) :
                   ns[ns[k].children[i]].end_terminal > ns[ns[k].children[i - 1]].end_terminal

\* C22: on every well-formed tree, running IgneaTreePositionUnfixer and then
\* IgneaTreePositionFixer leaves the start_position of every node what it was before.
FixUnfix ==
    (stage.at = "fixed" /\ WellFormed(stage.before)) =>
        \A k \in DOMAIN nodes : nodes[k].start_position = stage.before[k].start_position

\* The unfixer has moved the start of a node (past ignored input) and the fixer has run.
FixUnfixWitness ==
    /\ stage.at = "fixed"
    /\ WellFormed(stage.before)
    /\ UnfixerVisit(stage.before, forest[1]) # stage.before
    /\ \E k \in DOMAIN nodes :
          /\ nodes[k].kind = "nonterminal"
          /\ \E i \in 2..Len(nodes[k].children) :
                LET child == stage.before[nodes[k].children[i]]
                    unfixed == UnfixerVisit(stage.before, forest[1])[nodes[k].children[i]]
                IN  /\ child.kind = "nonterminal"
                    /\ PositionObject(child.start_position).index_
                           # PositionObject(unfixed.start_position).index_

\* What the claims compare of the tree under a node: the types, the spans and the order
\* of the children.
RECURSIVE View(_, _)
View(ns, node) ==
    [type_ |-> ns[node].type_, start_position |-> ns[node].start_position,
     end_terminal |-> ns[node].end_terminal,
     children |-> [i \in DOMAIN ns[node].children |-> View(ns, ns[node].children[i])]]

\* C21: for every well-formed tree t, converting t with IgneaTreeToBSRConverter and the
\* BSR with IgneaBSRToTreeConverter yields a tree with the same node types, the same leaf
\* spans and the same left-to-right order of children as t.
RoundTrip ==
    /\ stage.at # "raised"
    /\ stage.at = "converted" =>
          /\ stage.tree # None
          /\ View(nodes, stage.tree) = View(stage.before, forest[1])

(***************************************************************************)
(* Properties of visit                                                      *)
(***************************************************************************)
\* The numbers of the calls of hook in the log, in the order of the calls; of descend,
\* those that kept their item.
KeptCalls(log, hook) == SelectSeq(log, LAMBDA c : c.hook = hook /\ c.kept)

\* Where in the log the item that call number n of descend returned is ascended (0: not).
AscendedAt(log, n) ==
    IF \E i \in DOMAIN log : log[i].hook = "ascend" /\ log[i].call = n
    THEN CHOOSE i \in DOMAIN log : log[i].hook = "ascend" /\ log[i].call = n
    ELSE 0

\* C30: in both visitors, when bottom() returns true, ascend is called exactly once for
\* each item for which descend returned a non-empty result, in the exact reverse of the
\* order in which descend was called on them, so every item is ascended after all of its
\* visited children; items whose descend returned empty or None are never ascended and
\* their children never descended; when bottom() returns false neither ascend nor
\* top_after is called.
AscentOrder ==
    visit.at # "none" =>
        LET log == visit.log
            descended == KeptCalls(log, "descend")
            ascended == Calls(log, "ascend")
            bottom == Calls(log, "bottom")
        IN  /\ Len(ascended) <= Len(descended)
            /\ \A i \in DOMAIN ascended :
                  ascended[i].call = descended[Len(descended) + 1 - i].call
            /\ visit.at = "returned" /\ bottom[1].kept => Len(ascended) = Len(descended)
            /\ \A i \in DOMAIN log :
                  /\ log[i].hook = "descend" /\ log[i].parent # 0 =>
                        \E j \in 1..(i - 1) :
                            /\ log[j].hook = "descend" /\ log[j].call = log[i].parent
                            /\ log[j].kept
                  /\ log[i].hook = "descend" /\ log[i].kept /\ log[i].parent # 0
                        /\ AscendedAt(log, log[i].parent) # 0 =>
                            /\ AscendedAt(log, log[i].call) # 0
                            /\ AscendedAt(log, log[i].call) < AscendedAt(log, log[i].parent)
                  /\ log[i].hook \in {"ascend", "top_after"} =>
                        \E j \in 1..(i - 1) : log[j].hook = "bottom" /\ log[j].kept
            /\ bottom # <<>> /\ ~bottom[1].kept =>
                  /\ visit.at = "returned"
                  /\ Calls(log, "ascend") = <<>>
                  /\ Calls(log, "top_after") = <<>>

\* A visit of a tree has returned after bottom() returned true: descend returned None for
\* one item and kept two children of another, all ascended.
AscentOrderWitness ==
    /\ visit.at = "returned"
    /\ visit.cls = "IgneaTreeVisitor"
    /\ Calls(visit.log, "top_after") # <<>>
    /\ \E i \in DOMAIN visit.log : visit.log[i].hook = "descend" /\ ~visit.log[i].kept
    /\ \E i, j \in DOMAIN visit.log :
          /\ i # j
          /\ visit.log[i].hook = "descend" /\ visit.log[j].hook = "descend"
          /\ visit.log[i].kept /\ visit.log[j].kept
          /\ visit.log[i].parent # 0 /\ visit.log[i].parent = visit.log[j].parent
    /\ Len(Calls(visit.log, "ascend")) >= 3

\* The breadth-first level of the item of call number n of descend: 0 for the item visit
\* starts with, one more than the level of the call that enqueued it otherwise.
RECURSIVE LevelOf(_, _)
LevelOf(log, n) ==
    LET c == Calls(log, "descend")[n]
    IN  IF c.parent = 0 THEN 0 ELSE 1 + LevelOf(log, c.parent)

\* The deepest level with an item that descend kept (-1: none).
DeepestSurviving(log) ==
    LET kept == KeptCalls(log, "descend")
    IN  IF kept = <<>> THEN 0 - 1
        ELSE CHOOSE l \in 0..Len(log) :
                /\ \E i \in DOMAIN kept : LevelOf(log, kept[i].call) = l
                /\ \A i \in DOMAIN kept : LevelOf(log, kept[i].call) <= l

\* C31: in a visit, descend receives level_changed = true exactly for the first item
\* dequeued of each breadth-first level below the root level, and ascend receives
\* level_changed = true exactly for the first item popped of each level above the deepest
\* surviving level, whatever items descend prunes; the level counter list is never
\* indexed while empty.
LevelChanges ==
    visit.at # "none" =>
        LET log == visit.log
        IN  /\ visit.at # "IndexError"
            /\ \A i \in DOMAIN log :
                  /\ log[i].hook = "descend" =>
                        log[i].level_changed =
                            /\ LevelOf(log, log[i].call) > 0
                            /\ \A j \in 1..(i - 1) :
                                  log[j].hook = "descend" =>
                                      LevelOf(log, log[j].call) # LevelOf(log, log[i].call)
                  /\ log[i].hook = "ascend" =>
                        log[i].level_changed =
                            /\ LevelOf(log, log[i].call) < DeepestSurviving(log)
                            /\ \A j \in 1..(i - 1) :
                                  log[j].hook = "ascend" =>
                                      LevelOf(log, log[j].call) # LevelOf(log, log[i].call)

\* A visit has returned after ascending three levels, descend having returned nothing
\* for an item of the second level and for one of the third.
LevelChangesWitness ==
    /\ visit.at = "returned"
    /\ Calls(visit.log, "top_after") # <<>>
    /\ DeepestSurviving(visit.log) >= 2
    /\ \E i, j \in DOMAIN visit.log :
          /\ visit.log[i].hook = "descend" /\ ~visit.log[i].kept
          /\ visit.log[j].hook = "descend" /\ ~visit.log[j].kept
          /\ LevelOf(visit.log, visit.log[i].call) = 1
          /\ LevelOf(visit.log, visit.log[j].call) = 2
    /\ \E i, j \in DOMAIN visit.log :
          /\ visit.log[i].hook = "ascend" /\ visit.log[i].level_changed
          /\ visit.log[j].hook = "ascend" /\ ~visit.log[j].level_changed

\* The first list of more than one EPN that a visit of b dequeues, descend keeping the
\* lists before it ({}: none); queue is descend_queue.
RECURSIVE FirstAmbiguous(_, _)
FirstAmbiguous(b, queue) ==
    IF queue = <<>> THEN {}
    ELSE IF Cardinality(Head(queue)) > 1 THEN Head(queue)
    ELSE FirstAmbiguous(b, Tail(queue) \o ChildrenOf(b, Head(queue)))

\* The EPNs of the BSR b.
EPNsOf(b) == UNION {b.epns[k] : k \in DOMAIN b.epns}

\* C32: IgneaBSRDisambiguator calls disambiguate exactly for the visited EPN sets of size
\* greater than 1 and copies the single EPN of every other visited set; with the default
\* disambiguate the visit raises the ambiguous-grammar error at the start position of the
\* first such set, and when a visit completes without error every EPN set of new_bsr has
\* exactly one EPN.
Disambiguation ==
    /\ visitor.cls = "Chooser" =>
          /\ visitor.disambiguated = SelectSeq(visitor.visited, LAMBDA S : Cardinality(S) > 1)
          /\ bsr.start # <<>> => EPNsOf(visitor.new_bsr) =
                {visitor.pick[visitor.disambiguated[i]] : i \in DOMAIN visitor.disambiguated}
                \cup UNION {S \in {visitor.visited[i] : i \in DOMAIN visitor.visited} :
                               Cardinality(S) = 1}
          /\ \A k \in DOMAIN visitor.new_bsr.epns : Cardinality(visitor.new_bsr.epns[k]) = 1
    /\ (visitor.cls = "IgneaBSRDisambiguator" /\ bsr.start # <<>>) =>
          LET first == FirstAmbiguous(bsr, <<bsr.epns[bsr.start]>>)
          IN  /\ (visitor.error = "AmbiguousGrammar") = (first # {})
              /\ \A epn \in first : visitor.position = PositionOf(epn.state.start_position)
              /\ \A k \in DOMAIN visitor.new_bsr.epns :
                    /\ Cardinality(visitor.new_bsr.epns[k]) = 1
                    /\ visitor.new_bsr.epns[k] = bsr.epns[k]
    /\ (visitor.cls = "IgneaBSRDisambiguator" /\ visitor.error = "none") =>
          \A k \in DOMAIN visitor.new_bsr.epns : Cardinality(visitor.new_bsr.epns[k]) = 1

\* A visit with disambiguate overridden has completed after two calls of disambiguate
\* and the copy of single EPNs, on a BSR the default visit raises for.
DisambiguationWitness ==
    /\ visitor.cls = "Chooser"
    /\ Len(visitor.disambiguated) >= 2
    /\ Len(visitor.visited) > Len(visitor.disambiguated)
    /\ DisambiguatorVisit(bsr).error = "AmbiguousGrammar"

\* Every EPN set of b reached from its start has one EPN.
Unambiguous(b) ==
    /\ b.start \in DOMAIN b.epns
    /\ \A epn \in ReachedEPNs(b, b.epns[b.start]) : Cardinality(b.epns[KeyOf(epn)]) = 1

\* The types of the children of a node, first to last.
ChildTypes(ns, node) == [i \in DOMAIN ns[node].children |-> ns[ns[node].children[i]].type_]

\* C33: for an unambiguous BSR, IgneaBSRToTreeConverter builds for every typed EPN a
\* nonterminal node whose children list has one node per symbol of the EPN's string, in
\* the left-to-right order of that string, terminal symbols becoming terminal leaves,
\* also when a terminal has an empty span.
ChildrenPerSymbol ==
    (stage.at \in {"converted", "raised"} /\ stage.before = <<>> /\ Unambiguous(stage.bsr)) =>
        /\ stage.at = "converted"
        /\ \A epn \in ReachedEPNs(stage.bsr, stage.bsr.epns[stage.bsr.start]) :
              epn.type_ # NoType =>
                  \E node \in DOMAIN nodes :
                      /\ nodes[node].kind = "nonterminal"
                      /\ nodes[node].type_ = epn.type_
                      /\ nodes[node].end_terminal = epn.state.end_terminal
                      /\ ChildTypes(nodes, node) = epn.state.string
                      /\ \A i \in DOMAIN nodes[node].children :
                            (nodes[nodes[node].children[i]].kind = "terminal")
                                = IsTerminalTag(epn.state.string[i])

\* C34: in IgneaTreeFold, for every nonterminal node fold_internal(node, children)
\* receives exactly the non-None fold results of that node's own children, in
\* left-to-right child order, and nothing else, for every tree shape, including
\* nonterminal nodes with no children, and fold() returns the result for the root.
FoldChildren ==
    (stage.at = "folded" /\ visit.at = "folded") =>
        /\ \A node \in DOMAIN nodes :
              nodes[node].kind = "nonterminal" =>
                  /\ Cardinality({i \in DOMAIN visit.calls : visit.calls[i].node = node}) = 1
                  /\ \A i \in DOMAIN visit.calls :
                        visit.calls[i].node = node =>
                            visit.calls[i].children =
                                SelectSeq(nodes[node].children, LAMBDA c : c \notin visit.none)
        /\ visit._fold_queue[1] = IF forest[1] \in visit.none THEN None ELSE forest[1]

\* The same on the trees where every nonterminal node has children.
FoldChildrenOfParents ==
    (\A node \in DOMAIN nodes : nodes[node].kind = "nonterminal" => nodes[node].children # <<>>)
        => FoldChildren

\* C35: over calls of next_terminal that raise no error, the off-side NFA is given every
\* index at most once and in increasing order.
OffsideOnce == ~raised => Increasing(offside_fed)

\* The indices from to to - 1, in order.
Indices(from, to) == [i \in 1..(to - from) |-> from + i - 1]

\* The indices of the accepted characters of the matches, in order.
RECURSIVE AcceptedIndices(_)
AcceptedIndices(spans) ==
    IF spans = <<>> THEN <<>>
    ELSE AcceptedIndices(SubSeq(spans, 1, Len(spans) - 1))
             \o Indices(spans[Len(spans)].start, spans[Len(spans)].end)

\* Whether index i is a character of an ignored match of the call.
InIgnored(spans, i) ==
    \E k \in DOMAIN spans : Ignored(spans, k) /\ spans[k].start <= i /\ i < spans[k].end

\* C36: the off-side NFA is given no character of an ignored match.
OffsideEmittedOnly ==
    last.computed => \A n \in DOMAIN last.fed : ~InIgnored(last.spans, last.fed[n])

\* C36, amended: a call gives the off-side NFA the accepted characters of each of its
\* matches, ignored or emitted, and no character read beyond an accepted position.
OffsideAccepted ==
    last.computed => last.fed = AcceptedIndices(last.spans)

\* A call with an ignored match that read beyond what it accepted, then an emitted match.
OffsideAcceptedWitness ==
    /\ last.computed
    /\ last.kind = "return"
    /\ Len(last.spans) >= 2
    /\ Ignored(last.spans, 1)
    /\ last.spans[1].read > last.spans[1].end
    /\ last.spans[Len(last.spans)].refined # {}
    /\ last.fed # <<>>

\* C38: the column stack of the off-side driver is never empty, has 1 at its bottom and
\* increases from bottom to top, also after IgneaIndentationError.
StackShape ==
    /\ offside_stack # <<>>
    /\ offside_stack[1] = 1
    /\ Increasing(offside_stack)

\* IgneaIndentationError was raised after pops that left more than one level open.
StackShapeWitness ==
    /\ last.computed
    /\ last.kind = "Indentation"
    /\ Len(offside_stack) >= 2

\* Whether terminal to is reached from terminal from through next fields.
RECURSIVE ReachedByNext(_, _, _)
ReachedByNext(heap, from, to) ==
    IF from = to THEN TRUE
    ELSE IF heap[from].next = None THEN FALSE
    ELSE ReachedByNext(heap, heap[from].next, to)

\* C37: during parse() a change of _eoi from one terminal to another goes forward along
\* the next fields, and after a step of the derivation no terminal that the lexer has
\* returned starts after _eoi.
EoiForward ==
    [][/\ (_eoi # None /\ _eoi' # _eoi) => ReachedByNext(terminals', _eoi, _eoi')
       /\ (frames # <<>> /\ returned' # {}) =>
              /\ _eoi' # None
              /\ \A t \in returned' :
                    terminals'[t].start_position.index_ <= terminals'[_eoi'].start_position.index_]_vars

\* _eoi has moved to a terminal from one that starts at the same index (an off-side
\* terminal and the terminal it was put in front of), past terminals that start before.
EoiForwardWitness ==
    /\ status.kind = "parsing"
    /\ _eoi # None
    /\ \E t \in returned \ {_eoi} :
          /\ terminals[t].start_position.index_ = terminals[_eoi].start_position.index_
          /\ ReachedByNext(terminals, t, _eoi)
    /\ \E t \in returned :
          terminals[t].start_position.index_ < terminals[_eoi].start_position.index_

(***************************************************************************)
(* A transformer singleton used on one BSR after another: get, visit and    *)
(* apply of IgneaBSRPruner and IgneaBSRDisambiguator.  The BSRs are the     *)
(* parser's own ("bsr") and one constructed with IgneaBSR() ("other").  A   *)
(* transformer is the record of its fields: root is the name of its bsr,    *)
(* new_bsr the name of the BSR it refers to as new_bsr, "own" being the     *)
(* IgneaBSR that its last top_before constructed; at is how far the calls   *)
(* on it have come.                                                         *)
(***************************************************************************)
TransformerClasses == {"IgneaBSRPruner", "IgneaBSRDisambiguator"}

BSRNames == {"bsr", "other"}

\* IgneaBSR()
NewBSR == [start |-> <<>>, epns |-> <<>>]

\* The BSR object of the name, given the parser's BSR b and the others bs.
BSRObject(b, bs, name) == IF name = "bsr" THEN b ELSE bs[name]

\* self.new_bsr of the transformer t.
NewBsrOf(b, bs, t) == IF t.new_bsr = "own" THEN t.own ELSE BSRObject(b, bs, t.new_bsr)

\* Lines 47-52: visit returns at once on the BSR b.
VisitReturnsAtOnce(b) ==
    \/ b.start = <<>>
    \/ b.start \notin DOMAIN b.epns
    \/ b.epns[b.start] = {}

\* cls.get(root), lines 37-44, with __post_init__ of IgneaBSRTransformer (line 134) when a
\* transformer is constructed, once parse() has returned or found no derivation.
TransformerGet(cls, root) ==
    /\ status.kind \in {"returned", "NoDerivation"}
    /\ visitor.cls = "none"
    /\ bsrs' = IF root = "bsr" \/ root \in DOMAIN bsrs THEN bsrs ELSE (root :> NewBSR) @@ bsrs
    /\ LET found == ClassInstance(_instance, cls)
       IN  IF found = "None"
           THEN /\ _instance' = (cls :> cls) @@ _instance
                /\ instances' = (cls :> [cls |-> cls, root |-> root, new_bsr |-> root,
                                         own |-> NewBSR, at |-> "got"]) @@ instances
           ELSE /\ instances' = [instances EXCEPT ![found].root = root, ![found].at = "got"]
                /\ UNCHANGED _instance
    /\ UNCHANGED <<lexer_vars, construction_vars, parser_vars, declaration_vars, tree_vars, got, gets>>

\* The transformer t after visit() on its BSR b, lines 46-93 with top_before (lines
\* 136-138) and the descend of its class.
TransformerVisited(t, b) ==
    IF VisitReturnsAtOnce(b)
    THEN [t EXCEPT !.at = "visited"]
    ELSE IF t.cls = "IgneaBSRPruner"
    THEN [t EXCEPT !.at = "visited", !.new_bsr = "own",
                   !.own = PrunerLoop(b, <<b.epns[b.start]>>, [start |-> b.start, epns |-> <<>>])]
    ELSE LET r == DisambiguatorLoop(b, <<b.epns[b.start]>>, [start |-> b.start, epns |-> <<>>])
         IN  [t EXCEPT !.at = IF r.error = "none" THEN "visited" ELSE "raised",
                       !.new_bsr = "own", !.own = r.new_bsr]

\* visit() on the transformer of class cls.
TransformerVisit(cls) ==
    /\ cls \in DOMAIN instances
    /\ instances[cls].at = "got"
    /\ instances' = [instances EXCEPT
                        ![cls] = TransformerVisited(@, BSRObject(bsr, bsrs, instances[cls].root))]
    /\ UNCHANGED <<lexer_vars, construction_vars, parser_vars, declaration_vars, tree_vars,
                   _instance, got, gets, bsrs>>

\* apply() on the transformer of class cls, lines 140-143.
TransformerApply(cls) ==
    /\ cls \in DOMAIN instances
    /\ instances[cls].at = "visited"
    /\ LET t == instances[cls]
           new_bsr == NewBsrOf(bsr, bsrs, t)
           applied == [start |-> new_bsr.start, epns |-> new_bsr.epns]
       IN  /\ IF t.root = "bsr"
              THEN bsr' = applied /\ bsrs' = bsrs
              ELSE bsrs' = [bsrs EXCEPT ![t.root] = applied] /\ bsr' = bsr
           /\ instances' = [instances EXCEPT ![cls].new_bsr = t.root, ![cls].at = "applied"]
    /\ UNCHANGED <<lexer_vars, construction_vars, declaration_vars, tree_vars, grammar, _eoi,
                   _memo, frames, status, visitor, _instance, got, gets>>

TransformerGets == \E cls \in TransformerClasses : \E root \in BSRNames : TransformerGet(cls, root)

TransformerVisits == \E cls \in TransformerClasses : TransformerVisit(cls)

TransformerApplies == \E cls \in TransformerClasses : TransformerApply(cls)

TransformNext ==
    \/ ParserNext
    \/ TransformerGets
    \/ TransformerVisits
    \/ TransformerApplies

TransformSpec == ParserInit /\ [][TransformNext]_vars

\* C39: visit() and then apply() of a transformer on a BSR whose start is None, or is not
\* a key of epns, or has no EPN, leave the epns and the start of that BSR as they were,
\* whatever the transformer was used on before.
ApplyOfNothing ==
    [][\A cls \in DOMAIN instances :
          (/\ instances[cls].at = "visited"
           /\ instances'[cls].at = "applied"
           /\ VisitReturnsAtOnce(BSRObject(bsr, bsrs, instances[cls].root)))
          => BSRObject(bsr', bsrs', instances[cls].root) = BSRObject(bsr, bsrs, instances[cls].root)]_vars

(***************************************************************************)
(* IgneaBSRVisitor.visit of the class itself (descend returns the list,     *)
(* bottom False) on the BSR of a parse() that returned, turn by turn.  Of   *)
(* the local variables of visit the model keeps the two that the loop       *)
(* reads, descend_queue and descend_queue_levels: ascend_stack and          *)
(* ascend_stack_levels are only appended to in the loop and, bottom being   *)
(* False, never read afterwards.                                            *)
(***************************************************************************)
\* The steps of parse().
ParseSteps ==
    \/ Parse
    \/ DeriveSingleTerminalTag
    \/ DeriveMemoized
    \/ DeriveDescend
    \/ DeriveRaise
    \/ DeriveReturn
    \/ DescendStep
    \/ DescendFailed
    \/ DescendAsserted
    \/ DescendReturned
    \/ AscendStep
    \/ AscendReturn
    \/ ParseNothing
    \/ ParseNoDerivation
    \/ ParseDerivation

\* visit() up to its loop, lines 47-58.
BSRVisitStart ==
    /\ status.kind = "returned"
    /\ visitor.cls = "none"
    /\ visit.at = "none"
    /\ visit' = [at |-> IF VisitReturnsAtOnce(bsr) THEN "returned" ELSE "descent",
                 cls |-> "IgneaBSRVisitor",
                 descend_queue |-> IF VisitReturnsAtOnce(bsr) THEN <<>> ELSE <<bsr.epns[bsr.start]>>,
                 descend_queue_levels |-> <<1, 0>>]
    /\ UNCHANGED <<lexer_vars, construction_vars, parser_vars, declaration_vars, singleton_vars, nodes, forest, stage>>

\* One turn of the loop, lines 60-93.
BSRVisitDescend ==
    /\ visit.at = "descent"
    /\ visit.descend_queue # <<>>
    /\ LET epns == Head(visit.descend_queue)
           level_changed == DescendLevelChanged(visit.descend_queue_levels)
           levels == IF level_changed THEN <<visit.descend_queue_levels[2], 0>>
                     ELSE visit.descend_queue_levels
           children == ChildrenOf(bsr, epns)
       IN  visit' = [visit EXCEPT
                       !.descend_queue = Tail(@) \o children,
                       !.descend_queue_levels = <<levels[1] - 1, levels[2] + Len(children)>>]
    /\ UNCHANGED <<lexer_vars, construction_vars, parser_vars, declaration_vars, singleton_vars, nodes, forest, stage>>

\* The loop is over: bottom() is False and visit returns, lines 95-96.
BSRVisitBottom ==
    /\ visit.at = "descent"
    /\ visit.descend_queue = <<>>
    /\ visit' = [visit EXCEPT !.at = "returned"]
    /\ UNCHANGED <<lexer_vars, construction_vars, parser_vars, declaration_vars, singleton_vars, nodes, forest, stage>>

BSRVisitNext ==
    \/ ParseSteps
    \/ BSRVisitStart
    \/ BSRVisitDescend
    \/ BSRVisitBottom

BSRVisitSpec == ParserStart(ParserGrammars) /\ [][BSRVisitNext]_vars

\* visit() is one thread of control: its loop goes on while it can, and it returns when
\* the loop is over.
BSRVisitFairSpec == BSRVisitSpec /\ WF_vars(BSRVisitDescend) /\ WF_vars(BSRVisitBottom)

\* C40: visit() on the BSR of a parse() that returned comes to its end.
BSRVisitTerminates == (visit.at = "descent") ~> (visit.at = "returned")

============================================================================
